---- MODULE Spec2Model ----
(***************************************************************************)
(* UUID engine of the developer-tools site (src/utils/uuid.ts, kept here   *)
(* as src/unnamed/part_010): generation of v1, v4 and v5 UUIDs, bulk       *)
(* generation, formatting, validation and parsing.                         *)
(*                                                                         *)
(* Strings are sequences of one-character strings, bytes are 0..255, and   *)
(* numbers that do not fit TLC's 32-bit integers (the 100-ns tick counts)  *)
(* are little-endian sequences of hex digit values ("big numbers").        *)
(***************************************************************************)
EXTENDS Integers, Sequences, FiniteSets, TLC

(***************************************************************************)
(* Characters and JavaScript string primitives                             *)
(***************************************************************************)
HexChars == <<"0","1","2","3","4","5","6","7","8","9","a","b","c","d","e","f">>
UpperHexChars == <<"0","1","2","3","4","5","6","7","8","9","A","B","C","D","E","F">>
LowerLetters == <<"a","b","c","d","e","f","g","h","i","j","k","l","m",
                  "n","o","p","q","r","s","t","u","v","w","x","y","z">>
UpperLetters == <<"A","B","C","D","E","F","G","H","I","J","K","L","M",
                  "N","O","P","Q","R","S","T","U","V","W","X","Y","Z">>
DecChars == <<"0","1","2","3","4","5","6","7","8","9">>

Range(s) == {s[i] : i \in 1..Len(s)}
IndexOf(s, c) == CHOOSE i \in 1..Len(s) : s[i] = c
Reverse(s) == [i \in 1..Len(s) |-> s[Len(s) + 1 - i]]

\* String.prototype.toLowerCase / toUpperCase, one character
ToLowerChar(c) == IF c \in Range(UpperLetters) THEN LowerLetters[IndexOf(UpperLetters, c)] ELSE c
ToUpperChar(c) == IF c \in Range(LowerLetters) THEN UpperLetters[IndexOf(LowerLetters, c)] ELSE c
toLowerCase(s) == [i \in 1..Len(s) |-> ToLowerChar(s[i])]
toUpperCase(s) == [i \in 1..Len(s) |-> ToUpperChar(s[i])]

\* s.replace(/-/g, '')
RECURSIVE RemoveDashes(_)
RemoveDashes(s) ==
  IF s = <<>> THEN <<>>
  ELSE IF Head(s) = "-" THEN RemoveDashes(Tail(s))
  ELSE <<Head(s)>> \o RemoveDashes(Tail(s))

\* s.slice(a, b) for 0 <= a, b (b is clamped to the length)
Min(a, b) == IF a < b THEN a ELSE b
Max(a, b) == IF a > b THEN a ELSE b
Slice(s, a, b) == SubSeq(s, a + 1, Min(b, Len(s)))
\* s.slice(-a, -b) counted from the end (b = 0 stands for "to the end")
SliceEnd(s, a, b) == SubSeq(s, Max(Len(s) - a, 0) + 1, Len(s) - b)

\* s.padStart(n, '0')
RECURSIVE PadStart0(_, _)
PadStart0(s, n) == IF Len(s) >= n THEN s ELSE PadStart0(<<"0">> \o s, n)

\* parts.join('-')
RECURSIVE JoinDash(_)
JoinDash(parts) ==
  IF parts = <<>> THEN <<>>
  ELSE IF Len(parts) = 1 THEN parts[1]
  ELSE parts[1] \o <<"-">> \o JoinDash(Tail(parts))

(***************************************************************************)
(* Small-integer bit operations (operands below 2^16)                      *)
(***************************************************************************)
RECURSIVE BitAnd(_, _)
BitAnd(a, b) == IF a = 0 \/ b = 0 THEN 0
                ELSE (a % 2) * (b % 2) + 2 * BitAnd(a \div 2, b \div 2)
RECURSIVE BitOr(_, _)
BitOr(a, b) == IF a = 0 THEN b ELSE IF b = 0 THEN a
               ELSE Max(a % 2, b % 2) + 2 * BitOr(a \div 2, b \div 2)

(***************************************************************************)
(* Hex rendering and parsing of small numbers                              *)
(***************************************************************************)
IsHexChar(c) == c \in Range(HexChars) \cup Range(UpperHexChars)
HexValue(c) == IF c \in Range(HexChars) THEN IndexOf(HexChars, c) - 1
               ELSE IndexOf(UpperHexChars, c) - 1

\* n.toString(16) for 0 <= n < 2^31
RECURSIVE ToString16(_)
ToString16(n) == IF n < 16 THEN <<HexChars[n + 1]>>
                 ELSE ToString16(n \div 16) \o <<HexChars[(n % 16) + 1]>>

\* parseInt(s, 16) for a string of at most 7 hex digits
RECURSIVE ParseInt16(_)
ParseInt16(s) == IF s = <<>> THEN 0
                 ELSE 16 * ParseInt16(SubSeq(s, 1, Len(s) - 1)) + HexValue(s[Len(s)])

\* b.toString(16).padStart(2, '0')
ByteToHex(b) == PadStart0(ToString16(b), 2)

\* Array.from(bytes).map(b => b.toString(16).padStart(2, '0')).join('')
RECURSIVE BytesToHex(_)
BytesToHex(bytes) == IF bytes = <<>> THEN <<>>
                     ELSE ByteToHex(Head(bytes)) \o BytesToHex(Tail(bytes))

\* hex.match(/.{2}/g).map(byte => parseInt(byte, 16))
RECURSIVE HexToBytes(_)
HexToBytes(hex) == IF Len(hex) < 2 THEN <<>>
                   ELSE <<ParseInt16(SubSeq(hex, 1, 2))>> \o HexToBytes(SubSeq(hex, 3, Len(hex)))

\* `${i}` for an integer i >= 0
RECURSIVE ToDecimal(_)
ToDecimal(n) == IF n < 10 THEN <<DecChars[n + 1]>>
                ELSE ToDecimal(n \div 10) \o <<DecChars[(n % 10) + 1]>>

(***************************************************************************)
(* Big numbers: little-endian sequences of hex digit values, no leading    *)
(* (most significant) zero; <<>> is 0.  JavaScript numbers are IEEE-754    *)
(* doubles: an integer result is rounded to 53 significant bits.           *)
(***************************************************************************)
RECURSIVE BigNorm(_)
BigNorm(x) == IF x # <<>> /\ x[Len(x)] = 0 THEN BigNorm(SubSeq(x, 1, Len(x) - 1)) ELSE x

RECURSIVE BigFromNat(_)
BigFromNat(n) == IF n = 0 THEN <<>> ELSE <<n % 16>> \o BigFromNat(n \div 16)

\* x * m + carry, for 0 <= m, carry < 2^26
RECURSIVE BigMulAdd(_, _, _)
BigMulAdd(x, m, carry) ==
  IF x = <<>> THEN BigFromNat(carry)
  ELSE LET v == Head(x) * m + carry
       IN  <<v % 16>> \o BigMulAdd(Tail(x), m, v \div 16)
BigMulSmall(x, m) == BigNorm(BigMulAdd(x, m, 0))

RECURSIVE BigAddCarry(_, _, _)
BigAddCarry(x, y, carry) ==
  IF x = <<>> /\ y = <<>> THEN (IF carry = 0 THEN <<>> ELSE <<carry>>)
  ELSE LET a == IF x = <<>> THEN 0 ELSE Head(x)
           b == IF y = <<>> THEN 0 ELSE Head(y)
           v == a + b + carry
       IN  <<v % 16>> \o BigAddCarry(IF x = <<>> THEN <<>> ELSE Tail(x),
                                     IF y = <<>> THEN <<>> ELSE Tail(y), v \div 16)
BigAdd(x, y) == BigNorm(BigAddCarry(x, y, 0))

\* x < y
RECURSIVE BigLessSameLen(_, _)
BigLessSameLen(x, y) ==
  IF x = <<>> THEN FALSE
  ELSE IF x[Len(x)] # y[Len(y)] THEN x[Len(x)] < y[Len(y)]
  ELSE BigLessSameLen(SubSeq(x, 1, Len(x) - 1), SubSeq(y, 1, Len(y) - 1))
BigLess(x, y) == IF Len(x) # Len(y) THEN Len(x) < Len(y) ELSE BigLessSameLen(x, y)

\* x - y for x >= y
RECURSIVE BigSubBorrow(_, _, _)
BigSubBorrow(x, y, borrow) ==
  IF x = <<>> THEN <<>>
  ELSE LET b == IF y = <<>> THEN 0 ELSE Head(y)
           v == Head(x) - b - borrow
       IN  <<(v + 16) % 16>> \o BigSubBorrow(Tail(x), IF y = <<>> THEN <<>> ELSE Tail(y),
                                             IF v < 0 THEN 1 ELSE 0)
BigSub(x, y) == BigNorm(BigSubBorrow(x, y, 0))

\* floor(x / m) for 0 < m < 2^26: long division from the most significant digit
RECURSIVE BigDivRem(_, _, _)
BigDivRem(x, m, rem) ==
  IF x = <<>> THEN <<>>
  ELSE LET v == rem * 16 + x[Len(x)]
       IN  BigDivRem(SubSeq(x, 1, Len(x) - 1), m, v % m) \o <<v \div m>>
BigDivSmall(x, m) == BigNorm(BigDivRem(x, m, 0))

\* x * 16^k
RECURSIVE BigShiftHex(_, _)
BigShiftHex(x, k) == IF x = <<>> \/ k = 0 THEN x ELSE BigShiftHex(<<0>> \o x, k - 1)

\* n.toString(16) and parseInt(s, 16) for numbers of any size
BigToString16(x) == IF x = <<>> THEN <<"0">> ELSE [i \in 1..Len(x) |-> HexChars[x[Len(x) + 1 - i] + 1]]
BigParseInt16(s) == BigNorm([i \in 1..Len(s) |-> HexValue(s[Len(s) + 1 - i])])

\* little-endian bits of a big number and back
RECURSIVE BigToBits(_)
BigToBits(x) ==
  IF x = <<>> THEN <<>>
  ELSE LET d == Head(x)
       IN  <<d % 2, (d \div 2) % 2, (d \div 4) % 2, d \div 8>> \o BigToBits(Tail(x))
RECURSIVE BitsNorm(_)
BitsNorm(b) == IF b # <<>> /\ b[Len(b)] = 0 THEN BitsNorm(SubSeq(b, 1, Len(b) - 1)) ELSE b
RECURSIVE BitsToBig(_)
BitsToBig(b) ==
  IF b = <<>> THEN <<>>
  ELSE LET bit(i) == IF i <= Len(b) THEN b[i] ELSE 0
       IN  <<bit(1) + 2 * bit(2) + 4 * bit(3) + 8 * bit(4)>>
           \o BitsToBig(SubSeq(b, 5, Len(b)))
RECURSIVE BitsInc(_)
BitsInc(b) == IF b = <<>> THEN <<1>>
              ELSE IF Head(b) = 0 THEN <<1>> \o Tail(b)
              ELSE <<0>> \o BitsInc(Tail(b))

\* Number of significand bits of a double
MantissaBits == 53

\* The double nearest to the non-negative integer x (round half to even)
Round53(x) ==
  LET bits == BitsNorm(BigToBits(x))
      n    == Len(bits)
      drop == n - MantissaBits
      kept == SubSeq(bits, drop + 1, n)
      guard  == bits[drop]
      sticky == \E i \in 1..(drop - 1) : bits[i] = 1
      up   == guard = 1 /\ (sticky \/ kept[1] = 1)
      zeros == [i \in 1..drop |-> 0]
  IN  IF n <= MantissaBits THEN x
      ELSE BigNorm(BitsToBig(zeros \o (IF up THEN BitsInc(kept) ELSE kept)))

\* 100-ns ticks between 1582-10-15 and 1970-01-01: 0x01b21dd213814000
GregorianOffset == BigParseInt16(<<"0","1","b","2","1","d","d","2","1","3","8","1","4","0","0","0">>)
\* 100-ns ticks per millisecond
TicksPerMs == 10000

\* A JavaScript number that may be negative: sign and magnitude
\* a - b in double arithmetic, for non-negative integers a and b
DoubleSub(a, b) ==
  IF BigLess(a, b) THEN [neg |-> TRUE, mag |-> Round53(BigSub(b, a))]
  ELSE [neg |-> FALSE, mag |-> Round53(BigSub(a, b))]

\* new Date(t / 10000): the time value in whole milliseconds.  The Date
\* constructor truncates towards zero; |t| / 10000 stays far below the
\* 8.64e15 limit of a valid Date for every t the parser can build (t is below
\* 2^58), and rounding the quotient to a double never reaches the next integer
\* (t is a multiple of 16 there, so the quotient is at least 1/625 away from it
\* while doubles of that size are 1/512 apart).
DateFromTicks(t) ==
  LET ms == BigDivSmall(t.mag, TicksPerMs)
  IN  [neg |-> t.neg /\ ms # <<>>, ms |-> ms]

(***************************************************************************)
(* TextEncoder().encode: UTF-8 bytes of a string                           *)
(***************************************************************************)
Utf8Char(c) ==
  IF c \in Range(DecChars) THEN <<47 + IndexOf(DecChars, c)>>
  ELSE IF c \in Range(UpperLetters) THEN <<64 + IndexOf(UpperLetters, c)>>
  ELSE IF c \in Range(LowerLetters) THEN <<96 + IndexOf(LowerLetters, c)>>
  ELSE IF c = "-" THEN <<45>>
  ELSE IF c = "." THEN <<46>>
  ELSE IF c = "_" THEN <<95>>
  ELSE IF c = " " THEN <<32>>
  ELSE IF c = "," THEN <<44>>
  ELSE IF c = "!" THEN <<33>>
  ELSE <<195, 169>>   \* the only other character of the model's inputs, U+00E9

RECURSIVE Utf8Encode(_)
Utf8Encode(s) == IF s = <<>> THEN <<>> ELSE Utf8Char(Head(s)) \o Utf8Encode(Tail(s))

(***************************************************************************)
(* RegExp.prototype.test for an anchored pattern ^...$ that is a sequence  *)
(* of character classes, each repeated a fixed number of times, with the   *)
(* i flag (both sides are compared after canonicalising to upper case).    *)
(***************************************************************************)
ClassHas(cls, c) == ToUpperChar(c) \in {ToUpperChar(k) : k \in cls}

RECURSIVE RegexTest(_, _)
RegexTest(pattern, s) ==
  IF pattern = <<>> THEN s = <<>>
  ELSE LET p == Head(pattern)
       IN  /\ Len(s) >= p.n
           /\ \A i \in 1..p.n : ClassHas(p.cls, s[i])
           /\ RegexTest(Tail(pattern), SubSeq(s, p.n + 1, Len(s)))

\* [0-9a-f]
HexClass == Range(HexChars)
\* The pattern without the restriction of the version digit to [1-5]
uuidRegex_AnyVersion ==
  << [cls |-> HexClass, n |-> 8], [cls |-> {"-"}, n |-> 1],
     [cls |-> HexClass, n |-> 4], [cls |-> {"-"}, n |-> 1],
     [cls |-> HexClass, n |-> 4],
     [cls |-> {"-"}, n |-> 1],
     [cls |-> {"8","9","a","b"}, n |-> 1], [cls |-> HexClass, n |-> 3],
     [cls |-> {"-"}, n |-> 1],
     [cls |-> HexClass, n |-> 12] >>

\* The pattern without the restriction of the variant digit to [89ab]
uuidRegex_AnyVariant ==
  << [cls |-> HexClass, n |-> 8], [cls |-> {"-"}, n |-> 1],
     [cls |-> HexClass, n |-> 4], [cls |-> {"-"}, n |-> 1],
     [cls |-> {"1","2","3","4","5"}, n |-> 1], [cls |-> HexClass, n |-> 3],
     [cls |-> {"-"}, n |-> 1],
     [cls |-> HexClass, n |-> 4],
     [cls |-> {"-"}, n |-> 1],
     [cls |-> HexClass, n |-> 12] >>

\* /^[0-9a-f]{8}-[0-9a-f]{4}-[1-5][0-9a-f]{3}-[89ab][0-9a-f]{3}-[0-9a-f]{12}$/i
uuidRegex ==
  << [cls |-> HexClass, n |-> 8], [cls |-> {"-"}, n |-> 1],
     [cls |-> HexClass, n |-> 4], [cls |-> {"-"}, n |-> 1],
     [cls |-> {"1","2","3","4","5"}, n |-> 1], [cls |-> HexClass, n |-> 3],
     [cls |-> {"-"}, n |-> 1],
     [cls |-> {"8","9","a","b"}, n |-> 1], [cls |-> HexClass, n |-> 3],
     [cls |-> {"-"}, n |-> 1],
     [cls |-> HexClass, n |-> 12] >>

(***************************************************************************)
(* The UUID utilities                                                      *)
(***************************************************************************)
\* isValidUuid taking 32 hex digits without dashes too
isValidUuid_DashesOptional(uuid) ==
  \/ RegexTest(uuidRegex, uuid)
  \/ /\ Len(uuid) = 32
     /\ RegexTest(uuidRegex, SubSeq(uuid, 1, 8) \o <<"-">> \o SubSeq(uuid, 9, 12) \o <<"-">>
                               \o SubSeq(uuid, 13, 16) \o <<"-">> \o SubSeq(uuid, 17, 20)
                               \o <<"-">> \o SubSeq(uuid, 21, 32))
isValidUuid(uuid) == RegexTest(uuidRegex, uuid)

\* [hex.slice(0, 8), hex.slice(8, 12), hex.slice(12, 16), hex.slice(16, 20),
\*  hex.slice(20, 32)].join('-')
DashedGroups(hex) ==
  JoinDash(<<Slice(hex, 0, 8), Slice(hex, 8, 12), Slice(hex, 12, 16),
             Slice(hex, 16, 20), Slice(hex, 20, 32)>>)

\* bytes[i] = v for the 0-based index i of the source
SetByte(bytes, i, v) == [bytes EXCEPT ![i + 1] = v]

\* crypto.getRandomValues(new Uint8Array(n)): the next n bytes of the random
\* source, of which `used` bytes were consumed before
GetRandomValues(rnd, used, n) == SubSeq(rnd, used + 1, used + n)

\* generateV4Uuid without the "& 0x0f": the random high nibble stays
generateV4Uuid_Unmasked(rnd) ==
  LET randomBytes == GetRandomValues(rnd, 0, 16)
      b6 == SetByte(randomBytes, 6, BitOr(randomBytes[7], 64))
      b8 == SetByte(b6, 8, BitOr(BitAnd(b6[9], 63), 128))
  IN  DashedGroups(BytesToHex(b8))

\* generateV4Uuid with "& 0x0f" for "& 0x3f" on byte 8: two random bits lost
generateV4Uuid_NarrowMask(rnd) ==
  LET randomBytes == GetRandomValues(rnd, 0, 16)
      b6 == SetByte(randomBytes, 6, BitOr(BitAnd(randomBytes[7], 15), 64))
      b8 == SetByte(b6, 8, BitOr(BitAnd(b6[9], 15), 128))
  IN  DashedGroups(BytesToHex(b8))

generateV4Uuid(rnd) ==
  LET randomBytes == GetRandomValues(rnd, 0, 16)
      b6 == SetByte(randomBytes, 6, BitOr(BitAnd(randomBytes[7], 15), 64))
      b8 == SetByte(b6, 8, BitOr(BitAnd(b6[9], 63), 128))
  IN  DashedGroups(BytesToHex(b8))

generateV1Uuid(rnd, now) ==
  LET timeHex == PadStart0(BigToString16(
                   Round53(BigAdd(Round53(BigMulSmall(now, TicksPerMs)), GregorianOffset))), 16)
      node0 == GetRandomValues(rnd, 0, 6)
      node  == SetByte(node0, 0, BitOr(node0[1], 1))
      clockSeq0 == GetRandomValues(rnd, 6, 2)
      clockSeq  == SetByte(clockSeq0, 0, BitOr(BitAnd(clockSeq0[1], 63), 128))
      timeLow == SliceEnd(timeHex, 8, 0)
      timeMid == SliceEnd(timeHex, 12, 8)
      timeHiAndVersion ==
        PadStart0(ToString16(BitOr(BitAnd(ParseInt16(SliceEnd(timeHex, 16, 12)), 4095), 4096)), 4)
  IN  JoinDash(<<timeLow, timeMid, timeHiAndVersion, BytesToHex(clockSeq), BytesToHex(node)>>)

(***************************************************************************)
(* crypto.subtle.digest('SHA-1', bytes) is a primitive of the platform.    *)
(* It is a function of its input bytes; which function is not known to the *)
(* code.  The model picks one of a family of functions when the program    *)
(* starts (variable sha1) and keeps it: the digest of an input is one of   *)
(* the 20-byte blocks below, selected by the input bytes and by sha1.      *)
(***************************************************************************)
DigestBlock(fill, b6, b8) ==
  [i \in 1..20 |-> IF i = 7 THEN b6 ELSE IF i = 9 THEN b8 ELSE (fill * i) % 256]

DigestBlocks ==
  << DigestBlock(0, 0, 0),        \* 00 .. 00
     [i \in 1..20 |-> 18],        \* 12 .. 12, the digest the unit tests mock
     [i \in 1..20 |-> 255],       \* ff .. ff
     DigestBlock(101, 240, 127),  \* byte 6 = f0, byte 8 = 7f
     DigestBlock(53, 15, 128) >>  \* byte 6 = 0f, byte 8 = 80

RECURSIVE ByteMix(_, _)
ByteMix(bytes, acc) ==
  IF bytes = <<>> THEN acc
  ELSE ByteMix(Tail(bytes), (acc * 31 + Head(bytes)) % 1009)

Sha1Digest(seed, bytes) ==
  DigestBlocks[((seed + ByteMix(bytes, 0)) % Len(DigestBlocks)) + 1]

\* An optional string parameter: absent (undefined) or a string
None == [some |-> FALSE]
Some(s) == [some |-> TRUE, v |-> s]
\* !x for an optional string: undefined and '' are falsy
Falsy(x) == ~x.some \/ x.v = <<>>

\* The outcome of a promise
Resolved(v) == [kind |-> "resolved", value |-> v]
Rejected(m) == [kind |-> "rejected", message |-> m]

\* How often a call used the platform: getRandomValues, Date.now, digest
NoUse == [random |-> 0, clock |-> 0, digest |-> 0]
Use(r, c, d) == [random |-> r, clock |-> c, digest |-> d]
AddUse(a, b) == [random |-> a.random + b.random, clock |-> a.clock + b.clock,
                 digest |-> a.digest + b.digest]

\* V5Combined taking the namespace as text whatever it is
V5Combined_TextNamespace(namespace, name) == Utf8Encode(namespace) \o Utf8Encode(name)
\* The bytes generateV5Uuid hands to the digest
V5Combined(namespace, name) ==
  LET namespaceBytes == IF isValidUuid(namespace)
                        THEN HexToBytes(RemoveDashes(namespace))
                        ELSE Utf8Encode(namespace)
  IN  namespaceBytes \o Utf8Encode(name)

generateV5Uuid(seed, namespace, name) ==
  LET hashBytes == Sha1Digest(seed, V5Combined(namespace, name))
      h6 == SetByte(hashBytes, 6, BitOr(BitAnd(hashBytes[7], 15), 80))
      h8 == SetByte(h6, 8, BitOr(BitAnd(h6[9], 63), 128))
  IN  DashedGroups(BytesToHex(Slice(h8, 0, 16)))

\* generateUuid that hands name and namespace to generateV5Uuid in the wrong order
generateUuid_Swapped(env, version, namespace, name) ==
  CASE version = "v1" ->
         [ret |-> Resolved(generateV1Uuid(env.rnd, env.now)), use |-> Use(2, 1, 0)]
    [] version = "v4" ->
         [ret |-> Resolved(generateV4Uuid(env.rnd)), use |-> Use(1, 0, 0)]
    [] version = "v5" ->
         IF Falsy(namespace) \/ Falsy(name)
         THEN [ret |-> Rejected("v5 UUIDs require both namespace and name parameters"),
               use |-> NoUse]
         ELSE [ret |-> Resolved(generateV5Uuid(env.sha1, name.v, namespace.v)),
               use |-> Use(0, 0, 1)]
    [] OTHER ->
         [ret |-> Rejected("Unsupported UUID version: " \o version), use |-> NoUse]

\* generateUuid(version, namespace?, name?): the outcome of the promise and
\* the platform calls made.  env is what the platform delivers to this call:
\* env.rnd the random bytes, env.now the clock reading, env.sha1 the digest.
\* generateUuid whose v5 case tests the namespace only
generateUuid_NameUnchecked(env, version, namespace, name) ==
  CASE version = "v1" ->
         [ret |-> Resolved(generateV1Uuid(env.rnd, env.now)), use |-> Use(2, 1, 0)]
    [] version = "v4" ->
         [ret |-> Resolved(generateV4Uuid(env.rnd)), use |-> Use(1, 0, 0)]
    [] version = "v5" ->
         IF Falsy(namespace)
         THEN [ret |-> Rejected("v5 UUIDs require both namespace and name parameters"),
               use |-> NoUse]
         ELSE [ret |-> Resolved(generateV5Uuid(env.sha1, namespace.v,
                                               IF name.some THEN name.v ELSE <<>>)),
               use |-> Use(0, 0, 1)]
    [] OTHER ->
         [ret |-> Rejected("Unsupported UUID version: " \o version), use |-> NoUse]

generateUuid(env, version, namespace, name) ==
  CASE version = "v1" ->
         [ret |-> Resolved(generateV1Uuid(env.rnd, env.now)), use |-> Use(2, 1, 0)]
    [] version = "v4" ->
         [ret |-> Resolved(generateV4Uuid(env.rnd)), use |-> Use(1, 0, 0)]
    [] version = "v5" ->
         IF Falsy(namespace) \/ Falsy(name)
         THEN [ret |-> Rejected("v5 UUIDs require both namespace and name parameters"),
               use |-> NoUse]
         ELSE [ret |-> Resolved(generateV5Uuid(env.sha1, namespace.v, name.v)),
               use |-> Use(0, 0, 1)]
    [] OTHER ->
         [ret |-> Rejected("Unsupported UUID version: " \o version), use |-> NoUse]

\* formatUuid whose 'uppercase' style cuts the fourth group one digit short
formatUuid_ShortGroup(uuid, format) ==
  LET cleanUuid == RemoveDashes(uuid)
  IN  CASE format = "standard" -> toLowerCase(DashedGroups(cleanUuid))
        [] format = "no-dashes" -> toLowerCase(cleanUuid)
        [] format = "uppercase" ->
             toUpperCase(JoinDash(<<Slice(cleanUuid, 0, 8), Slice(cleanUuid, 8, 12),
                                    Slice(cleanUuid, 12, 16), Slice(cleanUuid, 16, 19),
                                    Slice(cleanUuid, 20, 32)>>))
        [] format = "uppercase-no-dashes" -> toUpperCase(cleanUuid)
        [] OTHER -> uuid

\* formatUuid whose 'standard' style forgets toLowerCase()
formatUuid_KeepsCase(uuid, format) ==
  LET cleanUuid == RemoveDashes(uuid)
  IN  CASE format = "standard" -> DashedGroups(cleanUuid)
        [] format = "no-dashes" -> toLowerCase(cleanUuid)
        [] format = "uppercase" -> toUpperCase(DashedGroups(cleanUuid))
        [] format = "uppercase-no-dashes" -> toUpperCase(cleanUuid)
        [] OTHER -> uuid

formatUuid(uuid, format) ==
  LET cleanUuid == RemoveDashes(uuid)
  IN  CASE format = "standard" -> toLowerCase(DashedGroups(cleanUuid))
        [] format = "no-dashes" -> toLowerCase(cleanUuid)
        [] format = "uppercase" -> toUpperCase(DashedGroups(cleanUuid))
        [] format = "uppercase-no-dashes" -> toUpperCase(cleanUuid)
        [] OTHER -> uuid

\* The variant test whose second mask is 0xe instead of 0xc
VariantOf_WideMask(variantBits) ==
  IF BitAnd(variantBits, 8) = 0 THEN "NCS backward compatibility"
  ELSE IF BitAnd(variantBits, 14) = 8 THEN "RFC 4122"
  ELSE IF BitAnd(variantBits, 14) = 12 THEN "Microsoft backward compatibility"
  ELSE "Reserved for future use"

\* The variant label parseUuid derives from hex digit 17
VariantOf(variantBits) ==
  IF BitAnd(variantBits, 8) = 0 THEN "NCS backward compatibility"
  ELSE IF BitAnd(variantBits, 12) = 8 THEN "RFC 4122"
  ELSE IF BitAnd(variantBits, 14) = 12 THEN "Microsoft backward compatibility"
  ELSE "Reserved for future use"

\* V1Timestamp with timeHi at bit 48 and timeMid at bit 32, where
\* generateV1Uuid took them from
V1Timestamp_FieldWeights(hex) ==
  LET timeLow == BigParseInt16(Slice(hex, 0, 8))
      timeMid == BigParseInt16(Slice(hex, 8, 12))
      timeHi  == BigFromNat(BitAnd(ParseInt16(Slice(hex, 12, 16)), 4095))
      sum == Round53(BigAdd(Round53(BigAdd(BigShiftHex(timeHi, 12), BigShiftHex(timeMid, 8))),
                            timeLow))
  IN  DateFromTicks(DoubleSub(sum, GregorianOffset))

\* The timestamp parseUuid computes for a version-1 UUID (hex: without dashes)
V1Timestamp(hex) ==
  LET timeLow == BigParseInt16(Slice(hex, 0, 8))
      timeMid == BigParseInt16(Slice(hex, 8, 12))
      timeHi  == BigFromNat(BitAnd(ParseInt16(Slice(hex, 12, 16)), 4095))
      sum == Round53(BigAdd(Round53(BigAdd(BigShiftHex(timeHi, 8), BigShiftHex(timeMid, 4))),
                            timeLow))
  IN  DateFromTicks(DoubleSub(sum, GregorianOffset))

\* parseUuid that returns the initial variant 'unknown' for an invalid string
parseUuid_UnknownVariant(uuid) ==
  IF ~isValidUuid(uuid)
  THEN [version |-> 0, variant |-> "unknown", isValid |-> FALSE]
  ELSE LET hex == RemoveDashes(uuid)
           version == ParseInt16(<<hex[13]>>)
           variantBits == ParseInt16(<<hex[17]>>)
           result == [version |-> version, variant |-> VariantOf(variantBits),
                      isValid |-> TRUE]
       IN  IF version = 1
           THEN result @@ [timestamp |-> V1Timestamp(hex)]
           ELSE result

\* parseUuid without the try block, the extraction of the timestamp throwing
\* when the time_low field is zero: the error leaves the function
parseUuid_TimestampThrows(uuid) ==
  IF ~isValidUuid(uuid)
  THEN [version |-> 0, variant |-> "invalid", isValid |-> FALSE]
  ELSE LET hex == RemoveDashes(uuid)
           version == ParseInt16(<<hex[13]>>)
           variantBits == ParseInt16(<<hex[17]>>)
           result == [version |-> version, variant |-> VariantOf(variantBits),
                      isValid |-> TRUE]
       IN  IF version = 1
           THEN IF BigParseInt16(Slice(hex, 0, 8)) = BigParseInt16(<<"0">>)
                THEN [threw |-> "RangeError"]
                ELSE result @@ [timestamp |-> V1Timestamp(hex)]
           ELSE result

\* parseUuid(uuid): a record with version, variant, isValid and, for
\* version 1, timestamp (nothing in the try block can throw)
parseUuid(uuid) ==
  IF ~isValidUuid(uuid)
  THEN [version |-> 0, variant |-> "invalid", isValid |-> FALSE]
  ELSE LET hex == RemoveDashes(uuid)
           version == ParseInt16(<<hex[13]>>)
           variantBits == ParseInt16(<<hex[17]>>)
           result == [version |-> version, variant |-> VariantOf(variantBits),
                      isValid |-> TRUE]
       IN  IF version = 1
           THEN result @@ [timestamp |-> V1Timestamp(hex)]
           ELSE result

(***************************************************************************)
(* generateBulkUuids, one step per resumption of the async function        *)
(***************************************************************************)
\* Largest count generateBulkUuids accepts
MaxCount == 1000

\* The branch "version === 'v5' && namespace && name"
BulkIsV5(args) == args.version = "v5" /\ ~Falsy(args.namespace) /\ ~Falsy(args.name)

\* The rejection of an awaited generation whose platform call (the random
\* source or the digest) threw
PlatformFailure == Rejected("platform failure")

\* BulkEntry numbering the names from 1
BulkEntry_OneBased(args, i, env) ==
  IF env.fails THEN [ret |-> PlatformFailure, use |-> NoUse]
  ELSE IF BulkIsV5(args)
  THEN LET indexedName == IF args.count = 1 THEN args.name.v
                          ELSE args.name.v \o <<"_">> \o ToDecimal(i + 1)
       IN  [ret |-> Resolved(generateV5Uuid(env.sha1, args.namespace.v, indexedName)),
            use |-> Use(0, 0, 1)]
  ELSE generateUuid(env, args.version, args.namespace, args.name)

\* BulkEntry leaving the name of the first entry without a suffix
BulkEntry_FirstBare(args, i, env) ==
  IF env.fails THEN [ret |-> PlatformFailure, use |-> NoUse]
  ELSE IF BulkIsV5(args)
  THEN LET indexedName == IF args.count = 1 \/ i = 0 THEN args.name.v
                          ELSE args.name.v \o <<"_">> \o ToDecimal(i)
       IN  [ret |-> Resolved(generateV5Uuid(env.sha1, args.namespace.v, indexedName)),
            use |-> Use(0, 0, 1)]
  ELSE generateUuid(env, args.version, args.namespace, args.name)

\* The promise awaited in iteration i of the loop, and the platform calls that
\* starting it makes
BulkEntry(args, i, env) ==
  IF env.fails THEN [ret |-> PlatformFailure, use |-> NoUse]
  ELSE IF BulkIsV5(args)
  THEN LET indexedName == IF args.count = 1 THEN args.name.v
                          ELSE args.name.v \o <<"_">> \o ToDecimal(i)
       IN  [ret |-> Resolved(generateV5Uuid(env.sha1, args.namespace.v, indexedName)),
            use |-> Use(0, 0, 1)]
  ELSE generateUuid(env, args.version, args.namespace, args.name)

\* The loop head "i < count" with the locals b: the next entry is started and
\* awaited, or the array is returned
BulkLoop(b, env) ==
  IF b.i < b.args.count
  THEN LET entry == BulkEntry(b.args, b.i, env)
       IN  [op |-> "generateBulkUuids", pc |-> "await", args |-> b.args,
            i |-> b.i, uuids |-> b.uuids, pending |-> entry.ret,
            use |-> AddUse(b.use, entry.use)]
  ELSE [op |-> "generateBulkUuids", pc |-> "done", args |-> b.args,
        ret |-> Resolved(b.uuids), use |-> b.use]

\* BulkBegin with "count < 0" for "count <= 0"
BulkBegin_ZeroAccepted(args, env) ==
  IF args.count < 0 \/ args.count > MaxCount
  THEN [op |-> "generateBulkUuids", pc |-> "done", args |-> args,
        ret |-> Rejected("Count must be between 1 and 1000"), use |-> NoUse]
  ELSE BulkLoop([args |-> args, i |-> 0, uuids |-> <<>>, use |-> NoUse], env)

\* The call up to its first await (or to its rejection)
BulkBegin(args, env) ==
  IF args.count <= 0 \/ args.count > MaxCount
  THEN [op |-> "generateBulkUuids", pc |-> "done", args |-> args,
        ret |-> Rejected("Count must be between 1 and 1000"), use |-> NoUse]
  ELSE BulkLoop([args |-> args, i |-> 0, uuids |-> <<>>, use |-> NoUse], env)

\* BulkContinue catching the rejection of an entry and going on without it
BulkContinue_SkipsFailed(b, env) ==
  IF b.pending.kind = "rejected"
  THEN BulkLoop([args |-> b.args, i |-> b.i + 1, uuids |-> b.uuids, use |-> b.use], env)
  ELSE BulkLoop([args |-> b.args, i |-> b.i + 1,
                 uuids |-> Append(b.uuids, b.pending.value), use |-> b.use], env)

\* The call from one await to the next (or to its return or rejection): a
\* rejected promise rejects the call, a resolved one is pushed
BulkContinue(b, env) ==
  IF b.pending.kind = "rejected"
  THEN [op |-> "generateBulkUuids", pc |-> "done", args |-> b.args,
        ret |-> b.pending, use |-> b.use]
  ELSE BulkLoop([args |-> b.args, i |-> b.i + 1,
                 uuids |-> Append(b.uuids, b.pending.value), use |-> b.use], env)

(***************************************************************************)
(* The digest primitives hashers.ts calls: CryptoJS.MD5 (RFC 1321) and     *)
(* crypto.subtle.digest for SHA-1, SHA-256 and SHA-512 (FIPS 180-4).       *)
(* A word of 32 or 64 bits is a sequence of 2 or 4 limbs of 16 bits, most  *)
(* significant first.  Iterations are split in halves, and sequences are   *)
(* built with SubSeq, to keep the evaluation shallow.                      *)
(***************************************************************************)
Pow2(k) == <<1, 2, 4, 8, 16, 32, 64, 128, 256, 512, 1024, 2048, 4096, 8192, 16384,
             32768, 65536>>[k + 1]
\* a AND b for numbers of w bits (w a power of two)
RECURSIVE AndBits(_, _, _)
AndBits(a, b, w) ==
  IF w = 1 THEN a * b
  ELSE LET h == w \div 2
           p == Pow2(h)
       IN  AndBits(a \div p, b \div p, h) * p + AndBits(a % p, b % p, h)
\* The tables of AND and XOR on two digits of 4 bits: entry 16 * a + b + 1
AndNibble == SubSeq([k \in 1..256 |-> AndBits((k - 1) \div 16, (k - 1) % 16, 4)], 1, 256)
XorNibble ==
  SubSeq([k \in 1..256 |->
            ((k - 1) \div 16) + ((k - 1) % 16) - 2 * AndBits((k - 1) \div 16, (k - 1) % 16, 4)],
         1, 256)
\* A table applied to the four digits of two limbs of 16 bits
Limb16(T, a, b) ==
  T[16 * (a \div 4096) + (b \div 4096) + 1] * 4096
  + T[16 * ((a \div 256) % 16) + ((b \div 256) % 16) + 1] * 256
  + T[16 * ((a \div 16) % 16) + ((b \div 16) % 16) + 1] * 16
  + T[16 * (a % 16) + (b % 16) + 1]
AndW(x, y) == SubSeq([i \in 1..Len(x) |-> Limb16(AndNibble, x[i], y[i])], 1, Len(x))
XorW(x, y) == SubSeq([i \in 1..Len(x) |-> Limb16(XorNibble, x[i], y[i])], 1, Len(x))
OrW(x, y) ==
  SubSeq([i \in 1..Len(x) |-> x[i] + y[i] - Limb16(AndNibble, x[i], y[i])], 1, Len(x))
NotW(x) == SubSeq([i \in 1..Len(x) |-> 65535 - x[i]], 1, Len(x))
\* x shifted right by r bits; the bits shifted out come back on the left when
\* rotate is set
ShiftRight(x, r, rotate) ==
  LET n == Len(x)
      q == r \div 16
      p == Pow2(r % 16)
      Limb(j) == IF j >= 1 THEN x[j] ELSE IF rotate THEN x[j + n] ELSE 0
  IN  SubSeq([i \in 1..n |-> (Limb(i - q - 1) % p) * (65536 \div p) + (Limb(i - q) \div p)],
             1, n)
RotR(x, r) == ShiftRight(x, r, TRUE)
RotL(x, r) == ShiftRight(x, 16 * Len(x) - r, TRUE)
ShR(x, r)  == ShiftRight(x, r, FALSE)
\* x + y modulo 2^(16 * Len(x)): the limbs 1..i of the sum, given the carry
\* into limb i
RECURSIVE AddFrom(_, _, _, _)
AddFrom(x, y, i, carry) ==
  IF i = 0 THEN <<>>
  ELSE LET s == x[i] + y[i] + carry
       IN  Append(AddFrom(x, y, i - 1, s \div 65536), s % 65536)
AddW(x, y) == AddFrom(x, y, Len(x), 0)
AddAll(s, t) == SubSeq([i \in 1..Len(s) |-> AddW(s[i], t[i])], 1, Len(s))
\* (x AND y) XOR (NOT x AND z), and the majority of x, y, z
Ch(x, y, z)  == XorW(AndW(x, y), AndW(NotW(x), z))
Maj(x, y, z) == XorW(XorW(AndW(x, y), AndW(x, z)), AndW(y, z))

\* F(... F(F(x, lo), lo + 1) ..., hi)
RECURSIVE Iterate(_, _, _, _)
Iterate(F(_, _), x, lo, hi) ==
  IF lo > hi THEN x
  ELSE IF lo = hi THEN F(x, lo)
  ELSE LET mid == (lo + hi) \div 2
           half == Iterate(F, x, lo, mid)
       IN  IF Len(half) >= 0 THEN Iterate(F, half, mid + 1, hi) ELSE half

\* The message with the bit 1, zeros up to lenBytes short of a multiple of
\* the block size, and the length in bits (below 2^16 for every input here)
PadMessage(m, block, lenBytes, bigEndian) ==
  LET bits == 8 * Len(m)
      hi == bits \div 256
      lo == bits % 256
      zeros == (2 * block - lenBytes - 1 - (Len(m) % block)) % block
      total == Len(m) + 1 + zeros + lenBytes
      At(i) == IF i <= Len(m) THEN m[i]
               ELSE IF i = Len(m) + 1 THEN 128
               ELSE IF bigEndian
                    THEN (IF i = total THEN lo ELSE IF i = total - 1 THEN hi ELSE 0)
               ELSE (IF i = total - lenBytes + 1 THEN lo
                     ELSE IF i = total - lenBytes + 2 THEN hi ELSE 0)
  IN  SubSeq([i \in 1..total |-> At(i)], 1, total)
\* The words of block k (from 0) of a padded message: wordBytes bytes each
BlockWords(padded, k, block, wordBytes, bigEndian) ==
  LET Byte(j, b) == padded[k * block + (j - 1) * wordBytes
                           + (IF bigEndian THEN b ELSE wordBytes + 1 - b)]
      Word(j) == SubSeq([l \in 1..(wordBytes \div 2) |->
                           256 * Byte(j, 2 * l - 1) + Byte(j, 2 * l)],
                        1, wordBytes \div 2)
  IN  SubSeq([j \in 1..(block \div wordBytes) |-> Word(j)], 1, block \div wordBytes)
\* Applies Step(state, block words) to the blocks of the padded message
RECURSIVE HashBlocks(_, _, _, _, _, _, _)
HashBlocks(Step(_, _), state, padded, k, block, wordBytes, bigEndian) ==
  IF k * block >= Len(padded) THEN state
  ELSE HashBlocks(Step, Step(state, BlockWords(padded, k, block, wordBytes, bigEndian)),
                  padded, k + 1, block, wordBytes, bigEndian)
\* The bytes of a sequence of words
WordsToBytes(words, bigEndian) ==
  LET wordBytes == 2 * Len(words[1])
      ByteOf(w, b) == IF b % 2 = 1 THEN w[(b + 1) \div 2] \div 256 ELSE w[b \div 2] % 256
      At(i) == LET w == words[((i - 1) \div wordBytes) + 1]
                   b == ((i - 1) % wordBytes) + 1
               IN  ByteOf(w, IF bigEndian THEN b ELSE wordBytes + 1 - b)
  IN  SubSeq([i \in 1..(wordBytes * Len(words)) |-> At(i)], 1, wordBytes * Len(words))

(* MD5 *)
MD5_T ==
  << <<55146, 42104>>, <<59591, 46934>>, <<9248, 28891>>, <<49597, 52974>>,
     <<62844, 4015>>, <<18311, 50730>>, <<43056, 17939>>, <<64838, 38145>>,
     <<27008, 39128>>, <<35652, 63407>>, <<65535, 23473>>, <<35164, 55230>>,
     <<27536, 4386>>, <<64920, 29075>>, <<42617, 17294>>, <<18868, 2081>>,
     <<63006, 9570>>, <<49216, 45888>>, <<9822, 23121>>, <<59830, 51114>>,
     <<54831, 4189>>, <<580, 5203>>, <<55457, 59009>>, <<59347, 64456>>,
     <<8673, 52710>>, <<49975, 2006>>, <<62677, 3463>>, <<17754, 5357>>,
     <<43491, 59653>>, <<64751, 41976>>, <<26479, 729>>, <<36138, 19594>>,
     <<65530, 14658>>, <<34673, 63105>>, <<28061, 24866>>, <<64997, 14348>>,
     <<42174, 59972>>, <<19422, 53161>>, <<63163, 19296>>, <<48831, 48240>>,
     <<10395, 32454>>, <<60065, 10234>>, <<54511, 12421>>, <<1160, 7429>>,
     <<55764, 53305>>, <<59099, 39397>>, <<8098, 31992>>, <<50348, 22117>>,
     <<62505, 8772>>, <<17194, 65431>>, <<43924, 9127>>, <<64659, 41017>>,
     <<25947, 22979>>, <<36620, 52370>>, <<65519, 62589>>, <<34180, 24017>>,
     <<28584, 32335>>, <<65068, 59104>>, <<41729, 17172>>, <<19976, 4513>>,
     <<63315, 32386>>, <<48442, 62005>>, <<10967, 53947>>, <<60294, 54161>> >>
MD5_S ==
  << <<7, 12, 17, 22>>, <<5, 9, 14, 20>>, <<4, 11, 16, 23>>, <<6, 10, 15, 21>> >>
MD5_Init == << <<26437, 8961>>, <<61389, 43913>>, <<39098, 56574>>, <<4146, 21622>> >>
\* step i (from 0) on the state <<A, B, C, D>>
MD5_Round(s, M, i) ==
  LET A == s[1]  B == s[2]  C == s[3]  D == s[4]
      F == CASE i < 16 -> OrW(AndW(B, C), AndW(NotW(B), D))
             [] i \in 16..31 -> OrW(AndW(D, B), AndW(NotW(D), C))
             [] i \in 32..47 -> XorW(XorW(B, C), D)
             [] OTHER -> XorW(C, OrW(B, NotW(D)))
      g == CASE i < 16 -> i
             [] i \in 16..31 -> (5 * i + 1) % 16
             [] i \in 32..47 -> (3 * i + 5) % 16
             [] OTHER -> (7 * i) % 16
      sum == AddW(AddW(AddW(F, A), MD5_T[i + 1]), M[g + 1])
  IN  <<D, AddW(B, RotL(sum, MD5_S[(i \div 16) + 1][(i % 4) + 1])), B, C>>
MD5_Block(s, M) ==
  LET Round(t, i) == MD5_Round(t, M, i)
  IN  AddAll(s, Iterate(Round, s, 0, 63))
MD5(bytes) ==
  WordsToBytes(HashBlocks(MD5_Block, MD5_Init,
                          PadMessage(bytes, 64, 8, FALSE), 0, 64, 4, FALSE), FALSE)

(* SHA-1 *)
SHA1_Init ==
  << <<26437, 8961>>, <<61389, 43913>>, <<39098, 56574>>, <<4146, 21622>>,
     <<50130, 57840>> >>
SHA1_K == << <<23170, 31129>>, <<28377, 60321>>, <<36635, 48348>>, <<51810, 49622>> >>
\* the message schedule with word t (from 1) appended
SHA1_Extend(W, t) ==
  Append(W, RotL(XorW(XorW(W[t - 3], W[t - 8]), XorW(W[t - 14], W[t - 16])), 1))
SHA1_Round(s, W, t) ==
  LET a == s[1]  b == s[2]  c == s[3]  d == s[4]  e == s[5]
      f == CASE t < 20 -> Ch(b, c, d)
             [] t \in 40..59 -> Maj(b, c, d)
             [] OTHER -> XorW(XorW(b, c), d)
      temp == AddW(AddW(AddW(AddW(RotL(a, 5), f), e), SHA1_K[(t \div 20) + 1]), W[t + 1])
  IN  <<temp, a, RotL(b, 30), c, d>>
SHA1_Block(s, M) ==
  LET W == Iterate(SHA1_Extend, M, 17, 80)
      Round(u, t) == SHA1_Round(u, W, t)
  IN  AddAll(s, Iterate(Round, s, 0, 79))
SHA1(bytes) ==
  WordsToBytes(HashBlocks(SHA1_Block, SHA1_Init,
                          PadMessage(bytes, 64, 8, TRUE), 0, 64, 4, TRUE), TRUE)

(* SHA-256 and SHA-512: one construction with two sets of parameters *)
SHA256_K ==
  << <<17034, 12184>>, <<28983, 17553>>, <<46528, 64463>>, <<59829, 56229>>,
     <<14678, 49755>>, <<23025, 4593>>, <<37439, 33444>>, <<43804, 24277>>,
     <<55303, 43672>>, <<4739, 23297>>, <<9265, 34238>>, <<21772, 32195>>,
     <<29374, 23924>>, <<32990, 45566>>, <<39900, 1703>>, <<49563, 61812>>,
     <<58523, 27073>>, <<61374, 18310>>, <<4033, 40390>>, <<9228, 41420>>,
     <<11753, 11375>>, <<19060, 33962>>, <<23728, 43484>>, <<30457, 35034>>,
     <<38974, 20818>>, <<43057, 50797>>, <<45059, 10184>>, <<48985, 32711>>,
     <<50912, 3059>>, <<54695, 37191>>, <<1738, 25425>>, <<5161, 10599>>,
     <<10167, 2693>>, <<11803, 8504>>, <<19756, 28156>>, <<21304, 3347>>,
     <<25866, 29524>>, <<30314, 2747>>, <<33218, 51502>>, <<37490, 11397>>,
     <<41663, 59553>>, <<43034, 26187>>, <<49739, 35696>>, <<51052, 20899>>,
     <<53650, 59417>>, <<54937, 1572>>, <<62478, 13701>>, <<4202, 41072>>,
     <<6564, 49430>>, <<7735, 27656>>, <<10056, 30540>>, <<13488, 48309>>,
     <<14620, 3251>>, <<20184, 43594>>, <<23452, 51791>>, <<26670, 28659>>,
     <<29839, 33518>>, <<30885, 25455>>, <<33992, 30740>>, <<36039, 520>>,
     <<37054, 65530>>, <<42064, 27883>>, <<48889, 41975>>, <<50801, 30962>> >>
SHA256_H0 ==
  << <<27145, 58983>>, <<47975, 44677>>, <<15470, 62322>>, <<42319, 62778>>,
     <<20750, 21119>>, <<39685, 26764>>, <<8067, 55723>>, <<23520, 52505>> >>
SHA512_K ==
  << <<17034, 12184, 55080, 44578>>, <<28983, 17553, 9199, 26061>>,
     <<46528, 64463, 60493, 15151>>, <<59829, 56229, 33161, 56252>>,
     <<14678, 49755, 62280, 46392>>, <<23025, 4593, 46597, 53273>>,
     <<37439, 33444, 44825, 20379>>, <<43804, 24277, 55917, 33048>>,
     <<55303, 43672, 41731, 578>>, <<4739, 23297, 17776, 28606>>,
     <<9265, 34238, 20196, 45708>>, <<21772, 32195, 54783, 46306>>,
     <<29374, 23924, 62075, 35183>>, <<32990, 45566, 15126, 38577>>,
     <<39900, 1703, 9671, 4661>>, <<49563, 61812, 53097, 9876>>,
     <<58523, 27073, 40689, 19154>>, <<61374, 18310, 14415, 9699>>,
     <<4033, 40390, 35724, 54709>>, <<9228, 41420, 30636, 40037>>,
     <<11753, 11375, 22827, 629>>, <<19060, 33962, 28326, 58499>>,
     <<23728, 43484, 48449, 64468>>, <<30457, 35034, 33553, 21429>>,
     <<38974, 20818, 61030, 57259>>, <<43057, 50797, 11700, 12816>>,
     <<45059, 10184, 39163, 8511>>, <<48985, 32711, 48879, 3812>>,
     <<50912, 3059, 15784, 36802>>, <<54695, 37191, 37642, 42789>>,
     <<1738, 25425, 57347, 33391>>, <<5161, 10599, 2574, 28272>>,
     <<10167, 2693, 18130, 12284>>, <<11803, 8504, 23590, 51494>>,
     <<19756, 28156, 23236, 10989>>, <<21304, 3347, 40341, 46047>>,
     <<25866, 29524, 35759, 25566>>, <<30314, 2747, 15479, 45736>>,
     <<33218, 51502, 18413, 44774>>, <<37490, 11397, 5250, 13627>>,
     <<41663, 59553, 19697, 868>>, <<43034, 26187, 48194, 12289>>,
     <<49739, 35696, 53496, 38801>>, <<51052, 20899, 1620, 48688>>,
     <<53650, 59417, 55023, 21016>>, <<54937, 1572, 21861, 43280>>,
     <<62478, 13701, 22385, 8234>>, <<4202, 41072, 12987, 53688>>,
     <<6564, 49430, 47314, 53448>>, <<7735, 27656, 20801, 43859>>,
     <<10056, 30540, 57230, 60313>>, <<13488, 48309, 57755, 18600>>,
     <<14620, 3251, 50633, 23139>>, <<20184, 43594, 58177, 35531>>,
     <<23452, 51791, 30563, 58227>>, <<26670, 28659, 54962, 47267>>,
     <<29839, 33518, 24047, 45820>>, <<30885, 25455, 17175, 12128>>,
     <<33992, 30740, 41456, 43890>>, <<36039, 520, 6756, 14828>>,
     <<37054, 65530, 9059, 7720>>, <<42064, 27883, 56962, 48617>>,
     <<48889, 41975, 45766, 30997>>, <<50801, 30962, 58226, 21291>>,
     <<51751, 16078, 59942, 24988>>, <<53638, 47303, 8640, 49671>>,
     <<60122, 32214, 52704, 60190>>, <<62845, 20351, 61038, 53624>>,
     <<1776, 26538, 29207, 28602>>, <<2659, 32197, 41672, 39078>>,
     <<4415, 38916, 48889, 3502>>, <<7025, 2869, 4892, 18203>>,
     <<10459, 30709, 8964, 32132>>, <<13002, 43899, 16583, 9363>>,
     <<15518, 48650, 5577, 48828>>, <<17181, 26564, 39952, 3404>>,
     <<19653, 54462, 52030, 17078>>, <<22911, 10652, 64613, 32298>>,
     <<24523, 28587, 15062, 64236>>, <<27716, 6540, 19015, 22551>> >>
SHA512_H0 ==
  << <<27145, 58983, 62396, 51464>>, <<47975, 44677, 33994, 42811>>,
     <<15470, 62322, 65172, 63531>>, <<42319, 62778, 24349, 14065>>,
     <<20750, 21119, 44518, 33489>>, <<39685, 26764, 11070, 27679>>,
     <<8067, 55723, 64321, 48491>>, <<23520, 52505, 4990, 8569>> >>
SHA256_Params ==
  [K |-> SHA256_K, H0 |-> SHA256_H0, rounds |-> 64, block |-> 64, wordBytes |-> 4,
   lenBytes |-> 8, bigSigma0 |-> <<2, 13, 22>>, bigSigma1 |-> <<6, 11, 25>>,
   sigma0 |-> <<7, 18, 3>>, sigma1 |-> <<17, 19, 10>>]
SHA512_Params ==
  [K |-> SHA512_K, H0 |-> SHA512_H0, rounds |-> 80, block |-> 128, wordBytes |-> 8,
   lenBytes |-> 16, bigSigma0 |-> <<28, 34, 39>>, bigSigma1 |-> <<14, 18, 41>>,
   sigma0 |-> <<1, 8, 7>>, sigma1 |-> <<19, 61, 6>>]
BigSigma(x, r) == XorW(XorW(RotR(x, r[1]), RotR(x, r[2])), RotR(x, r[3]))
SmallSigma(x, r) == XorW(XorW(RotR(x, r[1]), RotR(x, r[2])), ShR(x, r[3]))
SHA2_Round(P, s, W, t) ==
  LET a == s[1]  b == s[2]  c == s[3]  d == s[4]
      e == s[5]  f == s[6]  g == s[7]  h == s[8]
      T1 == AddW(AddW(AddW(h, BigSigma(e, P.bigSigma1)), Ch(e, f, g)),
                 AddW(P.K[t + 1], W[t + 1]))
      T2 == AddW(BigSigma(a, P.bigSigma0), Maj(a, b, c))
  IN  <<AddW(T1, T2), a, b, c, AddW(d, T1), e, f, g>>
SHA2_Block(P, s, M) ==
  LET Extend(V, t) ==
        Append(V, AddW(AddW(SmallSigma(V[t - 2], P.sigma1), V[t - 7]),
                       AddW(SmallSigma(V[t - 15], P.sigma0), V[t - 16])))
      W == Iterate(Extend, M, 17, P.rounds)
      Round(u, t) == SHA2_Round(P, u, W, t)
  IN  AddAll(s, Iterate(Round, s, 0, P.rounds - 1))
SHA2(P, bytes) ==
  LET Block(s, M) == SHA2_Block(P, s, M)
  IN  WordsToBytes(HashBlocks(Block, P.H0, PadMessage(bytes, P.block, P.lenBytes, TRUE),
                              0, P.block, P.wordBytes, TRUE), TRUE)
SHA256(bytes) == SHA2(SHA256_Params, bytes)
SHA512(bytes) == SHA2(SHA512_Params, bytes)

(***************************************************************************)
(* hashers.ts                                                              *)
(* An input is a string or an ArrayBuffer.  The platform may lack a digest *)
(* primitive: `broken` is the set of algorithms whose primitive fails, and *)
(* the failure is propagated as it is.                                     *)
(***************************************************************************)
TextInput(s) == [kind |-> "string", v |-> s]
BufferInput(bytes) == [kind |-> "buffer", bytes |-> bytes]
\* The bytes that are hashed: new Uint8Array(input) or the UTF-8 encoding
InputBytes(input) == IF input.kind = "buffer" THEN input.bytes ELSE Utf8Encode(input.v)
PrimitiveFailure(algorithm) == Rejected("digest failed: " \o algorithm)

\* HexOfBytes without padStart: a byte below 16 gives one digit
RECURSIVE HexOfBytes_Unpadded(_)
HexOfBytes_Unpadded(bytes) ==
  IF bytes = <<>> THEN <<>>
  ELSE (IF Head(bytes) < 16 THEN <<HexChars[Head(bytes) + 1]>>
        ELSE <<HexChars[(Head(bytes) \div 16) + 1], HexChars[(Head(bytes) % 16) + 1]>>)
       \o HexOfBytes_Unpadded(Tail(bytes))

\* hashArray.map(b => b.toString(16).padStart(2, '0')).join('') and
\* WordArray.toString(): two lowercase hex digits per byte
HexOfBytes(bytes) ==
  SubSeq([k \in 1..(2 * Len(bytes)) |->
            IF k % 2 = 1 THEN HexChars[(bytes[(k + 1) \div 2] \div 16) + 1]
            ELSE HexChars[(bytes[k \div 2] % 16) + 1]],
         1, 2 * Len(bytes))

\* crypto.subtle.digest(algorithm, data)
SubtleDigest(algorithm, data) ==
  CASE algorithm = "SHA-1" -> SHA1(data)
    [] algorithm = "SHA-256" -> SHA256(data)
    [] algorithm = "SHA-512" -> SHA512(data)

\* generateMD5 with the bytes of each 32-bit word of the digest reversed
generateMD5_WordOrder(broken, input) ==
  IF "MD5" \in broken THEN PrimitiveFailure("MD5")
  ELSE LET d == MD5(InputBytes(input))
       IN  Resolved(HexOfBytes(SubSeq([i \in 1..16 |->
                                         d[4 * ((i - 1) \div 4) + 4 - ((i - 1) % 4)]],
                                      1, 16)))
generateMD5(broken, input) ==
  IF "MD5" \in broken THEN PrimitiveFailure("MD5")
  ELSE Resolved(HexOfBytes(MD5(InputBytes(input))))

generateSHAHash(broken, algorithm, input) ==
  IF algorithm \in broken THEN PrimitiveFailure(algorithm)
  ELSE Resolved(HexOfBytes(SubtleDigest(algorithm, InputBytes(input))))

\* generateHash computing the MD5 digest before it looks at the algorithm
generateHash_HashesFirst(broken, algorithm, input, format) ==
  LET first == generateMD5(broken, input)
      fmt == IF format.some THEN format.v ELSE "lowercase"
      Cased(hash) ==
        IF hash.kind = "rejected" THEN hash
        ELSE Resolved(IF fmt = "uppercase" THEN toUpperCase(hash.value)
                      ELSE toLowerCase(hash.value))
  IN  CASE algorithm = "MD5" -> [ret |-> Cased(first), use |-> 1]
        [] algorithm \in {"SHA-1", "SHA-256", "SHA-512"} ->
             [ret |-> Cased(generateSHAHash(broken, algorithm, input)), use |-> 2]
        [] OTHER ->
             [ret |-> Rejected("Unsupported hash algorithm: " \o algorithm), use |-> 1]
\* generateHash(algorithm, input, format): its outcome and the number of
\* digests it asked for.  An omitted format is 'lowercase'.
generateHash(broken, algorithm, input, format) ==
  LET fmt == IF format.some THEN format.v ELSE "lowercase"
      Cased(hash) ==
        IF hash.kind = "rejected" THEN hash
        ELSE Resolved(IF fmt = "uppercase" THEN toUpperCase(hash.value)
                      ELSE toLowerCase(hash.value))
  IN  CASE algorithm = "MD5" ->
             [ret |-> Cased(generateMD5(broken, input)), use |-> 1]
        [] algorithm \in {"SHA-1", "SHA-256", "SHA-512"} ->
             [ret |-> Cased(generateSHAHash(broken, algorithm, input)), use |-> 1]
        [] OTHER ->
             [ret |-> Rejected("Unsupported hash algorithm: " \o algorithm), use |-> 0]

\* The algorithms in the order generateAllHashes computes them
HashAlgorithms == <<"MD5", "SHA-1", "SHA-256", "SHA-512">>
\* AllHashesFrom catching the failure of one algorithm and going on with an
\* empty entry for it
RECURSIVE AllHashesFrom_Isolated(_, _, _, _, _, _)
AllHashesFrom_Isolated(broken, input, format, k, results, use) ==
  IF k > Len(HashAlgorithms)
  THEN [ret |-> Resolved([a \in Range(HashAlgorithms) |->
                            results[IndexOf(HashAlgorithms, a)]]),
        use |-> use]
  ELSE LET out == generateHash(broken, HashAlgorithms[k], input, format)
       IN  AllHashesFrom_Isolated(broken, input, format, k + 1,
                                  Append(results, IF out.ret.kind = "rejected" THEN <<>>
                                                  ELSE out.ret.value),
                                  use + out.use)
\* The loop of generateAllHashes from algorithm k on: the first rejection
\* rejects the call
RECURSIVE AllHashesFrom(_, _, _, _, _, _)
AllHashesFrom(broken, input, format, k, results, use) ==
  IF k > Len(HashAlgorithms)
  THEN [ret |-> Resolved([a \in Range(HashAlgorithms) |->
                            results[IndexOf(HashAlgorithms, a)]]),
        use |-> use]
  ELSE LET out == generateHash(broken, HashAlgorithms[k], input, format)
       IN  IF out.ret.kind = "rejected" THEN [ret |-> out.ret, use |-> use + out.use]
           ELSE AllHashesFrom(broken, input, format, k + 1,
                              Append(results, out.ret.value),
                              use + out.use)
generateAllHashes(broken, input, format) ==
  AllHashesFrom(broken, input, format, 1, <<>>, 0)

\* compareHashes without toLowerCase()
compareHashes_Exact(hash1, hash2) == hash1 = hash2
compareHashes(hash1, hash2) == toLowerCase(hash1) = toLowerCase(hash2)

\* lengths[algorithm]: undefined for any other name
HashLengths == ("MD5" :> 32) @@ ("SHA-1" :> 40) @@ ("SHA-256" :> 64) @@ ("SHA-512" :> 128)
\* HexRunTest with the class [a-f0-9]
HexRunTest_LowerOnly(s) ==
  /\ s # <<>>
  /\ \A i \in 1..Len(s) : s[i] \in Range(HexChars)
\* /^[a-fA-F0-9]+$/.test(hash)
HexRunTest(s) ==
  /\ s # <<>>
  /\ \A i \in 1..Len(s) :
       s[i] \in {"a","b","c","d","e","f","A","B","C","D","E","F"} \cup Range(DecChars)
validateHashFormat(hash, algorithm) ==
  /\ algorithm \in DOMAIN HashLengths
  /\ Len(hash) = HashLengths[algorithm]
  /\ HexRunTest(hash)

(***************************************************************************)
(* Inputs of the model                                                     *)
(***************************************************************************)
\* '550e8400-e29b-41d4-a716-446655440000', the UUID of the unit tests
TestUuid ==
  <<"5","5","0","e","8","4","0","0","-","e","2","9","b","-","4","1","d","4","-",
    "a","7","1","6","-","4","4","6","6","5","5","4","4","0","0","0","0">>
\* UUID_NAMESPACES.DNS, '6ba7b810-9dad-11d1-80b4-00c04fd430c8'
NamespaceDNS ==
  <<"6","b","a","7","b","8","1","0","-","9","d","a","d","-","1","1","d","1","-",
    "8","0","b","4","-","0","0","c","0","4","f","d","4","3","0","c","8">>

AllHexChars == Range(HexChars) \cup Range(UpperHexChars)
\* u with hex digit 13 (the version) and hex digit 17 (the variant) replaced
WithDigits(u, v, r) == [u EXCEPT ![15] = v, ![20] = r]

\* Well-formed 8-4-4-4-12 strings with every version and variant digit
VariedUuids == {WithDigits(TestUuid, v, r) : v \in Range(HexChars), r \in AllHexChars}
\* A sample of them in other shapes: upper case, without dashes, both
ShapedUuids ==
  LET sample == {WithDigits(u, v, r) : u \in {TestUuid, NamespaceDNS},
                   v \in {"0","1","4","5","6"}, r \in {"7","8","b","c"}}
  IN  {toUpperCase(u) : u \in sample} \cup {RemoveDashes(u) : u \in sample}
        \cup {toUpperCase(RemoveDashes(u)) : u \in sample} \cup sample
\* Strings that are not of the 8-4-4-4-12 form
MalformedUuids ==
  { <<>>, <<" ">>,
    <<"i","n","v","a","l","i","d","-","u","u","i","d">>,
    SubSeq(TestUuid, 1, 23),                                \* too short
    SubSeq(TestUuid, 1, 35),
    TestUuid \o <<"-","e","x","t","r","a">>,                \* trailing text
    TestUuid \o <<"0">>,
    TestUuid \o <<" ">>,
    <<" ">> \o TestUuid,
    <<"0">> \o TestUuid,
    [TestUuid EXCEPT ![4] = "g"],                           \* not a hex digit
    [TestUuid EXCEPT ![36] = "G"],
    [TestUuid EXCEPT ![22] = "_"],
    [TestUuid EXCEPT ![9] = "0"],                           \* a dash missing
    [TestUuid EXCEPT ![24] = "_"],
    [TestUuid EXCEPT ![8] = "-", ![9] = "0"],               \* a dash misplaced
    [TestUuid EXCEPT ![15] = "-"],
    [TestUuid EXCEPT ![20] = "-"],
    TestUuid \o TestUuid }
\* Version-1 UUIDs with extreme time fields
TimeFieldUuids ==
  {
    <<"0","0","0","0","0","0","0","0","-","0","0","0","0","-","1","0","0","0","-","8","0","0","0","-","0","0","0","0","0","0","0","0","0","0","0","0">>,  \* all time fields zero
    <<"f","f","f","f","f","f","f","f","-","f","f","f","f","-","1","f","f","f","-","b","f","f","f","-","f","f","f","f","f","f","f","f","f","f","f","f">>,  \* all time fields ones
    <<"F","F","F","F","F","F","F","F","-","F","F","F","F","-","1","F","F","F","-","B","F","F","F","-","F","F","F","F","F","F","F","F","F","F","F","F">>,  \* the same in upper case
    <<"1","3","8","1","4","0","0","0","-","1","d","d","2","-","1","1","b","2","-","9","a","b","c","-","0","1","2","3","4","5","6","7","8","9","a","b">>,  \* the tick count of 1970-01-01
    <<"1","3","8","1","3","f","f","f","-","1","d","d","2","-","1","1","b","2","-","a","0","0","0","-","0","1","2","3","4","5","6","7","8","9","a","b">>   \* one tick before
  }
UuidStrings == VariedUuids \cup ShapedUuids \cup MalformedUuids \cup TimeFieldUuids

Formats == {"standard", "no-dashes", "uppercase", "uppercase-no-dashes"}

\* What crypto.getRandomValues delivers: 16 bytes, with every combination of
\* the bits the generators mask at bytes 6 and 8 (clock sequence and node of a
\* v1 UUID are bytes 6..7 and 0..5 of the same stream)
KeyBytes == {0, 127, 128, 255}
RandomBlocks ==
  {[i \in 1..16 |-> i - 1]} \cup
  {[i \in 1..16 |-> IF i = 7 THEN b6 ELSE IF i = 9 THEN b8 ELSE (i * 37) % 256] :
     b6 \in KeyBytes, b8 \in KeyBytes}

\* (a * 10^6 + b) * 10^6 + c as a big number
Millis(a, b, c) ==
  BigAdd(BigMulSmall(BigAdd(BigMulSmall(BigFromNat(a), 1000000), BigFromNat(b)), 1000000),
         BigFromNat(c))
\* What Date.now() delivers, in Unix milliseconds: the epoch, 2023, 2039
\* (from where the tick count needs more than 53 bits), the last valid Date
Instants ==
  { Millis(0, 0, 0), Millis(0, 0, 1), Millis(1, 700000, 0), Millis(1, 700000, 1),
    Millis(2, 200000, 1), Millis(8640, 0, 0) }

\* Namespace and name arguments
TextNs == <<"n","s">>
NameA == <<"a">>
NameA1 == <<"a","_","1">>
\* one element stands for the character U+00E9 (e with acute accent)
NameE == <<"U+00E9",".">>
Namespaces == {NamespaceDNS, TextNs, <<>>}
Names == {NameA, NameA1, NameE, <<>>}
OptNamespaces == {None} \cup {Some(n) : n \in Namespaces}
OptNames == {None} \cup {Some(n) : n \in Names}
Versions == {"v1", "v4", "v5"}

\* The seeds of the digest function
Sha1Seeds == 0..(Len(DigestBlocks) - 1)

\* What the platform may deliver to one call
Envs(seed) == {[rnd |-> r, now |-> t, sha1 |-> seed, fails |-> FALSE] : r \in RandomBlocks, t \in Instants}

\* A call that neither draws random bytes nor reads the clock is offered one
V5Envs(seed) ==
  { [rnd |-> [i \in 1..16 |-> i - 1], now |-> Millis(1, 700000, 0), sha1 |-> seed, fails |-> FALSE],
    [rnd |-> [i \in 1..16 |-> 255], now |-> Millis(2, 200000, 1), sha1 |-> seed, fails |-> FALSE] }
\* The smaller choice offered to the entries of a bulk call
BulkEnvs(seed) ==
  {[rnd |-> r, now |-> t, sha1 |-> seed, fails |-> FALSE] :
     r \in {[i \in 1..16 |-> i - 1], [i \in 1..16 |-> 255]},
     t \in {Millis(1, 700000, 0), Millis(2, 200000, 1)}}
\* Largest in-range count of a bulk call of the main specification
MaxBulk == 3
BulkCounts == (-1)..MaxBulk \cup {MaxCount + 1}
\* A count whose last indices have two digits
LongBulk == 11
BulkArgs ==
  {[count |-> n, version |-> v, namespace |-> None, name |-> None] :
     n \in BulkCounts, v \in {"v1", "v4", "v2"}} \cup
  {[count |-> n, version |-> "v4", namespace |-> Some(NamespaceDNS), name |-> Some(NameA)] :
     n \in BulkCounts} \cup
  {[count |-> n, version |-> "v5", namespace |-> ns, name |-> nm] :
     n \in BulkCounts, ns \in OptNamespaces, nm \in OptNames \ {Some(NameE)}} \cup
  {[count |-> MaxCount, version |-> "v5", namespace |-> ns, name |-> nm] :
     ns \in OptNamespaces, nm \in {None, Some(<<>>)}} \cup
  {[count |-> MaxCount, version |-> "v5", namespace |-> ns, name |-> nm] :
     ns \in {None, Some(<<>>)}, nm \in OptNames} \cup
  {[count |-> LongBulk, version |-> "v5", namespace |-> Some(NamespaceDNS),
    name |-> Some(nm)] : nm \in {NameA, NameE}}

\* Inputs of the digest engine: '', 'Hello, World!' (the text of the unit
\* tests) and a buffer of three bytes
HelloWorld == <<"H","e","l","l","o",","," ","W","o","r","l","d","!">>
HashInputs == {TextInput(<<>>), TextInput(HelloWorld), BufferInput(<<0, 255, 128>>)}
UnsupportedAlgorithms == {"SHA-384", "md5", ""}
OptHashFormats == {None, Some("lowercase"), Some("uppercase")}
\* n hex digits drawn from an alphabet of 16
HexRun(n, chars) == [i \in 1..n |-> chars[((i * 7) % 16) + 1]]
MixedHexChars == <<"0","1","2","3","4","5","6","7","8","9","A","b","C","d","E","f">>
\* Strings offered to validateHashFormat: hex digits of each digest length and
\* of other lengths, in either case, and strings with another character
HashStrings ==
  {HexRun(n, chars) : n \in {0, 1, 31, 32, 33, 40, 64, 127, 128, 129},
                      chars \in {HexChars, UpperHexChars}} \cup
  {HexRun(n, MixedHexChars) : n \in {32, 40, 64, 128}} \cup
  {[HexRun(n, HexChars) EXCEPT ![k] = ch] :
     n \in {32, 128}, k \in {1, 32}, ch \in {"g", "G", " ", "-", "x", "\n"}}
\* Pairs offered to compareHashes
HashPairs ==
  LET strings == {HexRun(n, chars) : n \in {0, 32, 40},
                                     chars \in {HexChars, UpperHexChars, MixedHexChars}}
                   \cup {[HexRun(32, HexChars) EXCEPT ![32] = ch] : ch \in {"0", "a", "A"}}
  IN  strings \X strings
\* Names that are not a UUID version
UnsupportedVersions == {"v2", "v3", "V4", ""}

(***************************************************************************)
(* State                                                                   *)
(*   sha1    which function the platform's SHA-1 digest is                 *)
(*   call    per caller, the call it made last: its operation, arguments,  *)
(*           result and, for generateBulkUuids, the locals of the call     *)
(*           while it is suspended at an await                             *)
(*   ui      the state of the mounted component, if one is mounted         *)
(***************************************************************************)
VARIABLES sha1, call, ui

vars == <<sha1, call, ui>>

Callers == {1, 2}
Idle == [op |-> "none", pc |-> "idle"]
\* No component is mounted
Unmounted == [component |-> "none"]
Set(c, rec) == call' = [call EXCEPT ![c] = rec] /\ UNCHANGED ui

Init ==
  /\ sha1 \in Sha1Seeds
  /\ call = [c \in Callers |-> Idle]
  /\ ui = Unmounted

\* The UUIDs a finished single generation returned
Generated(cl) ==
  IF cl.op \in {"generateV1Uuid", "generateV4Uuid"} THEN {cl.ret}
  ELSE IF cl.op \in {"generateV5Uuid", "generateUuid"} /\ cl.ret.kind = "resolved"
       THEN {cl.ret.value}
  ELSE {}
\* The strings a caller applies a function to: one of the given inputs when it
\* starts, afterwards what its last call returned (a generated UUID, or a
\* formatted input)
Sources(cl, inputs) ==
  IF cl.pc = "idle" THEN {[uuid |-> u, from |-> [op |-> "input"]] : u \in inputs}
  ELSE IF cl.op = "formatUuid" /\ cl.from.op = "input" THEN {[uuid |-> cl.ret, from |-> cl]}
  ELSE {[uuid |-> u, from |-> cl] : u \in Generated(cl)}
\* A caller repeats a v5 generation that resolved, with the same namespace and
\* name, through either function: the earlier call is remembered
Earlier(cl) ==
  IF cl.pc = "idle" THEN {[op |-> "none"]}
  ELSE IF /\ cl.op = "generateV5Uuid" \/ (cl.op = "generateUuid" /\ cl.version = "v5")
          /\ cl.from.op = "none" /\ cl.ret.kind = "resolved"
       THEN {cl}
  ELSE {}
NamespaceOf(cl) == IF cl.op = "generateUuid" THEN cl.namespace.v ELSE cl.namespace
NameOf(cl) == IF cl.op = "generateUuid" THEN cl.name.v ELSE cl.name

CallGenerateV4Uuid(c) ==
  /\ call[c].pc = "idle"
  /\ \E rnd \in RandomBlocks :
       Set(c, [op |-> "generateV4Uuid", pc |-> "done", rnd |-> rnd,
               ret |-> generateV4Uuid(rnd)])
  /\ UNCHANGED sha1

CallGenerateV1Uuid(c) ==
  /\ call[c].pc = "idle"
  /\ \E rnd \in RandomBlocks, now \in Instants :
       Set(c, [op |-> "generateV1Uuid", pc |-> "done", rnd |-> rnd, now |-> now,
               ret |-> generateV1Uuid(rnd, now)])
  /\ UNCHANGED sha1

CallGenerateV5Uuid(c) ==
  /\ \E from \in Earlier(call[c]) :
     \E namespace \in (IF from.op = "none" THEN Namespaces ELSE {NamespaceOf(from)}),
        name \in (IF from.op = "none" THEN Names ELSE {NameOf(from)}) :
       Set(c, [op |-> "generateV5Uuid", pc |-> "done", from |-> from,
               namespace |-> namespace, name |-> name,
               ret |-> Resolved(generateV5Uuid(sha1, namespace, name))])
  /\ UNCHANGED sha1

CallGenerateUuid(c) ==
  /\ \E from \in Earlier(call[c]) :
     \E version \in (IF from.op = "none" THEN Versions \cup UnsupportedVersions
                     ELSE {"v5"}) :
     \E namespace \in (IF from.op # "none" THEN {Some(NamespaceOf(from))}
                       ELSE IF version = "v5" THEN OptNamespaces ELSE {None}),
        name \in (IF from.op # "none" THEN {Some(NameOf(from))}
                  ELSE IF version = "v5" THEN OptNames ELSE {None}),
        env \in (IF version = "v5" THEN V5Envs(sha1) ELSE Envs(sha1)) :
       LET out == generateUuid(env, version, namespace, name)
       IN  Set(c, [op |-> "generateUuid", pc |-> "done", from |-> from,
                   version |-> version, namespace |-> namespace, name |-> name,
                   ret |-> out.ret, use |-> out.use])
  /\ UNCHANGED sha1

CallIsValidUuid(c, inputs) ==
  /\ \E src \in Sources(call[c], inputs) :
       Set(c, [op |-> "isValidUuid", pc |-> "done", uuid |-> src.uuid, from |-> src.from,
               ret |-> isValidUuid(src.uuid)])
  /\ UNCHANGED sha1

CallParseUuid(c, inputs) ==
  /\ \E src \in Sources(call[c], inputs) :
       Set(c, [op |-> "parseUuid", pc |-> "done", uuid |-> src.uuid, from |-> src.from,
               ret |-> parseUuid(src.uuid)])
  /\ UNCHANGED sha1

CallFormatUuid(c, inputs) ==
  /\ \E src \in Sources(call[c], inputs), format \in Formats :
       Set(c, [op |-> "formatUuid", pc |-> "done", uuid |-> src.uuid, format |-> format,
               from |-> src.from, ret |-> formatUuid(src.uuid, format)])
  /\ UNCHANGED sha1

CallGenerateBulkUuids(c, argsets, envs) ==
  /\ call[c].pc = "idle"
  /\ \E args \in argsets, env \in envs : Set(c, BulkBegin(args, env))
  /\ UNCHANGED sha1

\* Locals with uuids declared once for the module: a call pushes on the array
\* of the first call in flight
Locals_ModuleArray(c) ==
  LET first == CHOOSE d \in Callers :
                 /\ call[d].pc = "await"
                 /\ \A e \in Callers : call[e].pc = "await" => d <= e
  IN  [call[c] EXCEPT !.uuids = call[first].uuids]
\* The locals of the invocation c that is suspended at an await: count, version,
\* namespace, name, uuids and i belong to the invocation
Locals(c) == call[c]

ResumeGenerateBulkUuids(c, envs) ==
  /\ call[c].pc = "await"
  /\ \E env \in envs : Set(c, BulkContinue(Locals(c), env))
  /\ UNCHANGED sha1

\* A caller asks for a digest again, of the same input by the same algorithm,
\* in another format
EarlierHash(cl) ==
  IF cl.pc = "idle" THEN {[op |-> "none"]}
  ELSE IF cl.op = "generateHash" /\ cl.from.op = "none" /\ cl.format # Some("uppercase")
            /\ cl.ret.kind = "resolved" THEN {cl}
  ELSE {}

CallGenerateHash(c) ==
  /\ \E from \in EarlierHash(call[c]) :
     \E algorithm \in (IF from.op = "none" THEN Range(HashAlgorithms) \cup UnsupportedAlgorithms
                       ELSE {from.algorithm}),
        input \in (IF from.op = "none" THEN HashInputs ELSE {from.input}),
        format \in (IF from.op = "none" THEN OptHashFormats
                    ELSE OptHashFormats \ {None, from.format}) :
     \E broken \in (IF from.op = "none" THEN {{}, {algorithm}} ELSE {{}}) :
       LET out == generateHash(broken, algorithm, input, format)
       IN  Set(c, [op |-> "generateHash", pc |-> "done", from |-> from, broken |-> broken,
                   algorithm |-> algorithm, input |-> input, format |-> format,
                   ret |-> out.ret, use |-> out.use])
  /\ UNCHANGED sha1

CallGenerateAllHashes(c) ==
  /\ call[c].pc = "idle"
  /\ \E input \in HashInputs, format \in OptHashFormats,
        broken \in {{}} \cup {{a} : a \in Range(HashAlgorithms)} :
       LET out == generateAllHashes(broken, input, format)
       IN  Set(c, [op |-> "generateAllHashes", pc |-> "done", broken |-> broken,
                   input |-> input, format |-> format, ret |-> out.ret, use |-> out.use])
  /\ UNCHANGED sha1

\* The digests a finished generateHash returned
Hashed(cl) ==
  IF cl.pc = "done" /\ cl.op = "generateHash" /\ cl.ret.kind = "resolved" THEN {cl.ret.value}
  ELSE {}

\* validateHashFormat of a given string, or of the digest just generated
CallValidateHashFormat(c) ==
  /\ \E src \in (IF call[c].pc = "idle"
                 THEN {[hash |-> h, from |-> [op |-> "input"]] : h \in HashStrings}
                 ELSE {[hash |-> h, from |-> call[c]] : h \in Hashed(call[c])}) :
     \E algorithm \in (IF src.from.op = "input"
                       THEN Range(HashAlgorithms) \cup UnsupportedAlgorithms
                       ELSE Range(HashAlgorithms)) :
       Set(c, [op |-> "validateHashFormat", pc |-> "done", from |-> src.from,
               hash |-> src.hash, algorithm |-> algorithm,
               ret |-> validateHashFormat(src.hash, algorithm)])
  /\ UNCHANGED sha1

\* compareHashes of a given pair; of the digest just generated, in upper and in
\* lower case; of the two digests of a repeated generation
ComparedPairs(cl) ==
  IF cl.pc = "idle" THEN {[hash1 |-> p[1], hash2 |-> p[2], from |-> [op |-> "input"]] :
                            p \in HashPairs}
  ELSE {[hash1 |-> toUpperCase(h), hash2 |-> toLowerCase(h), from |-> cl] : h \in Hashed(cl)}
       \cup (IF Hashed(cl) # {} /\ cl.from.op = "generateHash"
             THEN {[hash1 |-> cl.from.ret.value, hash2 |-> cl.ret.value, from |-> cl],
                   [hash1 |-> cl.ret.value, hash2 |-> cl.from.ret.value, from |-> cl]}
             ELSE {})
CallCompareHashes(c) ==
  /\ \E p \in ComparedPairs(call[c]) :
       Set(c, [op |-> "compareHashes", pc |-> "done", from |-> p.from,
               hash1 |-> p.hash1, hash2 |-> p.hash2,
               ret |-> compareHashes(p.hash1, p.hash2)])
  /\ UNCHANGED sha1

\* The caller is done with the result of its last call
Forget(c) ==
  /\ call[c].pc = "done"
  /\ Set(c, Idle)
  /\ UNCHANGED sha1

\* One caller generates UUIDs, singly and in bulk, and validates and parses
\* what it got
Next ==
  \E c \in {1} :
    \/ CallGenerateV4Uuid(c)
    \/ CallGenerateV1Uuid(c)
    \/ CallGenerateV5Uuid(c)
    \/ CallGenerateUuid(c)
    \/ CallIsValidUuid(c, {})
    \/ CallParseUuid(c, {})
    \/ CallGenerateBulkUuids(c, BulkArgs, BulkEnvs(sha1))
    \/ ResumeGenerateBulkUuids(c, BulkEnvs(sha1))
    \/ Forget(c)

Spec == Init /\ [][Next]_vars

\* One caller validates, parses and formats given strings, and what formatting
\* them returned
InitText ==
  /\ sha1 = 0
  /\ call = [c \in Callers |-> Idle]
  /\ ui = Unmounted

NextText ==
  \E c \in {1} :
    \/ CallIsValidUuid(c, UuidStrings)
    \/ CallParseUuid(c, UuidStrings)
    \/ CallFormatUuid(c, ShapedUuids \cup MalformedUuids)
    \/ Forget(c)

SpecText == InitText /\ [][NextText]_vars

\* One caller makes bulk calls of v1 and v4 UUIDs with counts around the limits
\* of the accepted range, and v5 calls that lack a parameter.  The platform is
\* steady: entry i of a call gets the clock reading start + i ms and random
\* bytes that change with i (bytes 6 and 8 take all 256 values).
SteadyEnv(i) ==
  [rnd |-> [j \in 1..16 |-> (i * 7 + j * 37) % 256],
   now |-> BigAdd(Millis(1, 700000, 0), BigFromNat(i)),
   sha1 |-> sha1, fails |-> FALSE]
LimitCounts == {-1, 0, 1, 2, MaxCount - 1, MaxCount, MaxCount + 1, 2 * MaxCount}
LimitArgs ==
  {[count |-> n, version |-> v, namespace |-> None, name |-> None] :
     n \in LimitCounts, v \in {"v1", "v4"}} \cup
  {[count |-> n, version |-> "v5", namespace |-> ns, name |-> nm] :
     n \in LimitCounts, ns \in {None, Some(<<>>), Some(NamespaceDNS)},
     nm \in {None, Some(<<>>)}}

InitBulk ==
  /\ sha1 = 0
  /\ call = [c \in Callers |-> Idle]
  /\ ui = Unmounted

NextBulk ==
  \E c \in {1} :
    \/ CallGenerateBulkUuids(c, LimitArgs, {SteadyEnv(0)})
    \/ ResumeGenerateBulkUuids(c, {SteadyEnv(call[c].i + 1)})
    \/ Forget(c)

SpecBulk == InitBulk /\ [][NextBulk]_vars

\* Two callers have a bulk generation each in flight; every resumption of one
\* or the other is a step
PairArgs ==
  {[count |-> 1, version |-> "v5", namespace |-> Some(NamespaceDNS), name |-> Some(NameA)],
   [count |-> 2, version |-> "v5", namespace |-> Some(NamespaceDNS), name |-> Some(NameA)],
   [count |-> 2, version |-> "v5", namespace |-> Some(NamespaceDNS), name |-> Some(NameE)],
   [count |-> 3, version |-> "v5", namespace |-> Some(TextNs), name |-> Some(NameA1)],
   [count |-> 2, version |-> "v4", namespace |-> None, name |-> None],
   [count |-> 2, version |-> "v5", namespace |-> None, name |-> Some(NameA)],
   [count |-> 0, version |-> "v5", namespace |-> Some(NamespaceDNS), name |-> Some(NameA)]}
PairEnvs(seed) ==
  {[rnd |-> r, now |-> Millis(1, 700000, 0), sha1 |-> seed, fails |-> FALSE] :
     r \in {[i \in 1..16 |-> i - 1], [i \in 1..16 |-> 255]}}
InitPair ==
  /\ sha1 \in {0, 1}
  /\ call = [c \in Callers |-> Idle]
  /\ ui = Unmounted
NextPair ==
  \E c \in Callers :
    \/ CallGenerateBulkUuids(c, PairArgs, PairEnvs(sha1))
    \/ ResumeGenerateBulkUuids(c, PairEnvs(sha1))
    \/ Forget(c)
SpecPair == InitPair /\ [][NextPair]_vars

\* One caller generates in bulk on a platform whose random source and digest
\* may throw at any entry
FaultyArgs ==
  {[count |-> n, version |-> v, namespace |-> None, name |-> None] :
     n \in {-1, 0, 1, 2, 3, MaxCount + 1}, v \in {"v1", "v4", "v2"}} \cup
  {[count |-> n, version |-> "v5", namespace |-> ns, name |-> nm] :
     n \in {-1, 0, 1, 2, 3, MaxCount + 1},
     ns \in {None, Some(NamespaceDNS)}, nm \in {None, Some(<<>>), Some(NameA)}}
FaultyEnvs(seed) ==
  {[rnd |-> [i \in 1..16 |-> i - 1], now |-> Millis(1, 700000, 0), sha1 |-> seed,
    fails |-> f] : f \in BOOLEAN}
InitFaulty ==
  /\ sha1 = 0
  /\ call = [c \in Callers |-> Idle]
  /\ ui = Unmounted
NextFaulty ==
  \E c \in {1} :
    \/ CallGenerateBulkUuids(c, FaultyArgs, FaultyEnvs(sha1))
    \/ ResumeGenerateBulkUuids(c, FaultyEnvs(sha1))
    \/ Forget(c)
SpecFaulty == InitFaulty /\ [][NextFaulty]_vars

\* One caller computes digests, one by one and all four at once, validates and
\* compares them and given strings, and asks generateUuid for a UUID
InitHash ==
  /\ sha1 = 0
  /\ call = [c \in Callers |-> Idle]
  /\ ui = Unmounted
NextHash ==
  \E c \in {1} :
    \/ CallGenerateHash(c)
    \/ CallGenerateAllHashes(c)
    \/ CallValidateHashFormat(c)
    \/ CallCompareHashes(c)
    \/ CallGenerateUuid(c)
    \/ Forget(c)
SpecHash == InitHash /\ [][NextHash]_vars

(***************************************************************************)
(* The UuidGenerator component (UuidGenerator.tsx)                         *)
(* ui holds the React state of the mounted component, the generation its   *)
(* Generate handler has in flight with the format that handler closed      *)
(* over, and whether Clear was the last of the Generate and Clear clicks.  *)
(* The validation panel shares no state with the generation and is left    *)
(* out.  A step is one event handler or one resumption of the handler      *)
(* after an await, each with the render that follows it.                   *)
(***************************************************************************)
\* String.prototype.trim on the blanks of the model's inputs
RECURSIVE trimStart(_)
trimStart(s) == IF s # <<>> /\ Head(s) = " " THEN trimStart(Tail(s)) ELSE s
trim(s) == Reverse(trimStart(Reverse(trimStart(s))))

\* The state after the first render
UuidGeneratorMounted ==
  [component |-> "UuidGenerator", version |-> "v4", format |-> "standard", count |-> 1,
   namespace |-> NamespaceDNS, name |-> <<>>, generatedUuids |-> <<>>,
   isGenerating |-> FALSE, error |-> "", flight |-> Idle, closure |-> "standard",
   cleared |-> FALSE]

\* "version === 'v5' && (!namespace.trim() || !name.trim())"
V5ParamsMissing(u) ==
  u.version = "v5" /\ (trim(u.namespace) = <<>> \/ trim(u.name) = <<>>)

\* generateUuids up to its await: the early return, or the bulk call started
\* with the parameters and the format of the render the handler belongs to
generateUuids(u, env) ==
  IF V5ParamsMissing(u)
  THEN [u EXCEPT !.error = "v5 UUIDs require both namespace and name"]
  ELSE [u EXCEPT !.isGenerating = TRUE, !.error = "", !.closure = u.format,
                 !.flight = BulkBegin(
                    [count |-> u.count, version |-> u.version,
                     namespace |-> IF u.version = "v5" THEN Some(trim(u.namespace)) ELSE None,
                     name |-> IF u.version = "v5" THEN Some(trim(u.name)) ELSE None],
                    env)]

\* generateUuids from the settling of the awaited bulk call on: the try, catch
\* and finally blocks
generateUuids_Settled(u) ==
  LET out == u.flight.ret
  IN  [u EXCEPT !.generatedUuids =
                   IF out.kind = "resolved"
                   THEN [i \in 1..Len(out.value) |-> formatUuid(out.value[i], u.closure)]
                   ELSE <<>>,
                !.error = IF out.kind = "rejected" THEN out.message ELSE @,
                !.isGenerating = FALSE,
                !.flight = Idle]

\* handleClear of the UuidGenerator
UuidHandleClear(u) == [u EXCEPT !.generatedUuids = <<>>, !.error = ""]

\* What the component renders
hasGeneratedUuids(u) == Len(u.generatedUuids) > 0
ShowsGeneratedCount(u) == hasGeneratedUuids(u) /\ u.error = "" /\ ~u.isGenerating
ShowsNoUuidsGenerated(u) == ~hasGeneratedUuids(u)
GenerateDisabled(u) == u.isGenerating \/ V5ParamsMissing(u)

\* An event of the user is handled between two tasks.  A v1 or v4 generation
\* awaits promises that are already settled, so it runs to its end in the
\* microtasks of the click that started it; a v5 generation awaits the
\* platform's digest, and events are handled while it waits.
AcceptsEvents(u) ==
  \/ u.flight.pc = "idle"
  \/ u.flight.pc = "await" /\ BulkIsV5(u.flight.args)

\* The counts, names and formats the user chooses among
UiCounts == {1, 2}
UiNames == {<<>>, <<" ">>, NameA}
UiFormats == {"standard", "uppercase"}
\* What the platform delivers to the component
UiEnvs(seed) ==
  {[rnd |-> [i \in 1..16 |-> i - 1], now |-> Millis(1, 700000, 0), sha1 |-> seed,
    fails |-> f] : f \in BOOLEAN}

UuidSetVersion ==
  /\ AcceptsEvents(ui)
  /\ \E v \in Versions \ {ui.version} : ui' = [ui EXCEPT !.version = v]
  /\ UNCHANGED <<sha1, call>>

UuidSetFormat ==
  /\ AcceptsEvents(ui)
  /\ \E f \in UiFormats \ {ui.format} : ui' = [ui EXCEPT !.format = f]
  /\ UNCHANGED <<sha1, call>>

UuidSetCount ==
  /\ AcceptsEvents(ui)
  /\ \E n \in UiCounts \ {ui.count} : ui' = [ui EXCEPT !.count = Max(1, Min(MaxCount, n))]
  /\ UNCHANGED <<sha1, call>>

\* The name input is rendered for v5 only
UuidSetName ==
  /\ AcceptsEvents(ui)
  /\ ui.version = "v5"
  /\ \E n \in UiNames \ {ui.name} : ui' = [ui EXCEPT !.name = n]
  /\ UNCHANGED <<sha1, call>>

\* A click on Generate, which is disabled while isGenerating
UuidClickGenerate ==
  /\ AcceptsEvents(ui)
  /\ ~GenerateDisabled(ui)
  /\ \E env \in UiEnvs(sha1) : ui' = [generateUuids(ui, env) EXCEPT !.cleared = FALSE]
  /\ UNCHANGED <<sha1, call>>

\* A click on Clear, which is never disabled
UuidClickClear ==
  /\ AcceptsEvents(ui)
  /\ ui' = [UuidHandleClear(ui) EXCEPT !.cleared = TRUE]
  /\ UNCHANGED <<sha1, call>>

\* The bulk call in flight goes from one await to the next
UuidResume ==
  /\ ui.flight.pc = "await"
  /\ \E env \in UiEnvs(sha1) : ui' = [ui EXCEPT !.flight = BulkContinue(ui.flight, env)]
  /\ UNCHANGED <<sha1, call>>

\* The bulk call has settled and the handler goes on after its await
UuidSettle ==
  /\ ui.flight.pc = "done"
  /\ ui' = generateUuids_Settled(ui)
  /\ UNCHANGED <<sha1, call>>

InitUuidUi ==
  /\ sha1 = 0
  /\ call = [c \in Callers |-> Idle]
  /\ ui = UuidGeneratorMounted
NextUuidUi ==
  \/ UuidSetVersion
  \/ UuidSetFormat
  \/ UuidSetCount
  \/ UuidSetName
  \/ UuidClickGenerate
  \/ UuidClickClear
  \/ UuidResume
  \/ UuidSettle
SpecUuidUi == InitUuidUi /\ [][NextUuidUi]_vars

(***************************************************************************)
(* The HashGenerator component (HashGenerator.tsx)                         *)
(* ui holds the React state of the mounted component and, in the order     *)
(* they were started, the runs of generateHashesFromInput that are         *)
(* suspended at an await, each with the input and the format its render    *)
(* closed over.  The comparison panel reads hashes and writes none of the  *)
(* state below, and is left out.  A step is one event with the render and  *)
(* the effect that follow it, or one resumption of a suspended run with    *)
(* the render that follows it.                                             *)
(***************************************************************************)
\* The texts, the file and the formats the user chooses among
UiTexts == {<<>>, <<" ">>, NameA, <<"a", "b">>}
UiFile == [name |-> "f.bin", bytes |-> <<0, 255, 128>>]
UiHashFormats == {"lowercase", "uppercase"}
\* What generateAllHashes is called with for these
UiHashInputs ==
  {TextInput(trim(t)) : t \in {s \in UiTexts : trim(s) # <<>>}} \cup {BufferInput(UiFile.bytes)}
\* A platform whose digests work, and one whose SHA-1 primitive fails
UiPlatforms == {{}, {"SHA-1"}}
\* What generateAllHashes settles with on each platform, for each input and
\* format of the model
AllHashesOutcomes ==
  [broken \in UiPlatforms |->
     [p \in UiHashInputs \X UiHashFormats |-> generateAllHashes(broken, p[1], Some(p[2])).ret]]

\* Most runs of generateHashesFromInput that are suspended at a time
MaxInFlight == 2

\* The state after the first render and its effect, which finds the text
\* empty
HashGeneratorMounted ==
  [component |-> "HashGenerator", inputMode |-> "text", textInput |-> <<>>,
   selectedFile |-> None, hashes |-> <<>>, hashFormat |-> "lowercase",
   isGenerating |-> FALSE, error |-> "", flights |-> <<>>,
   digests |-> AllHashesOutcomes]

\* generateHashesFromInput up to its first await: the two early returns, or
\* the run that is suspended at readFileAsArrayBuffer (file mode) or at
\* generateAllHashes (text mode)
generateHashesFromInput(u) ==
  IF u.inputMode = "text" /\ trim(u.textInput) = <<>>
  THEN [u EXCEPT !.hashes = <<>>, !.error = ""]
  ELSE IF u.inputMode = "file" /\ ~u.selectedFile.some
  THEN [u EXCEPT !.hashes = <<>>, !.error = ""]
  ELSE [u EXCEPT !.isGenerating = TRUE, !.error = "",
                 !.flights = Append(@,
                    IF u.inputMode = "text"
                    THEN [pc |-> "digest", input |-> TextInput(trim(u.textInput)),
                          hashFormat |-> u.hashFormat]
                    ELSE [pc |-> "read", file |-> u.selectedFile.v,
                          hashFormat |-> u.hashFormat])]

\* The effect on generateHashesFromInput: it runs after a render in which
\* one of inputMode, textInput, selectedFile, hashFormat has changed
AfterRender(before, after) ==
  IF <<before.inputMode, before.textInput, before.selectedFile, before.hashFormat>>
       # <<after.inputMode, after.textInput, after.selectedFile, after.hashFormat>>
  THEN generateHashesFromInput(after)
  ELSE after

\* The sequence s without its element k
Without(s, k) == SubSeq(s, 1, k - 1) \o SubSeq(s, k + 1, Len(s))

\* Run k goes on after readFileAsArrayBuffer resolved: it is suspended at
\* generateAllHashes
FileRead(u, k) ==
  [u EXCEPT !.flights[k] = [pc |-> "digest", input |-> BufferInput(u.flights[k].file.bytes),
                            hashFormat |-> u.flights[k].hashFormat]]

\* Run k goes on after the promise it awaits settled with out: the rest of
\* the try block, or the catch block, and the finally block
Settled(u, k, out) ==
  [u EXCEPT !.hashes = IF out.kind = "resolved" THEN out.value ELSE <<>>,
            !.error = IF out.kind = "rejected" THEN out.message ELSE @,
            !.isGenerating = FALSE,
            !.flights = Without(@, k)]

\* handleClear of the HashGenerator
HashHandleClear(u) ==
  [u EXCEPT !.textInput = <<>>, !.selectedFile = None, !.hashes = <<>>, !.error = ""]

\* What the component renders
hasAnyHash(u) == \E a \in DOMAIN u.hashes : u.hashes[a] # <<>>
ShowsError(u) == u.error # ""
ShowsGenerating(u) == u.isGenerating
ShowsSuccess(u) == hasAnyHash(u) /\ u.error = "" /\ ~u.isGenerating

\* An event that starts a run is taken while fewer than MaxInFlight runs are
\* suspended
Bounded(u) == Len(u.flights) <= MaxInFlight

\* The textarea is rendered in text mode
HashSetTextInput ==
  /\ ui.inputMode = "text"
  /\ \E t \in UiTexts \ {ui.textInput} :
       /\ ui' = AfterRender(ui, [ui EXCEPT !.textInput = t])
       /\ Bounded(ui')
  /\ UNCHANGED <<sha1, call>>

HashSetInputMode ==
  /\ \E m \in {"text", "file"} \ {ui.inputMode} :
       /\ ui' = AfterRender(ui, [ui EXCEPT !.inputMode = m])
       /\ Bounded(ui')
  /\ UNCHANGED <<sha1, call>>

HashSetHashFormat ==
  /\ \E f \in UiHashFormats \ {ui.hashFormat} :
       /\ ui' = AfterRender(ui, [ui EXCEPT !.hashFormat = f])
       /\ Bounded(ui')
  /\ UNCHANGED <<sha1, call>>

\* handleFileChange: the file input is rendered in file mode, and the user
\* picks the file or no file
HashFileChange ==
  /\ ui.inputMode = "file"
  /\ \E file \in {None, Some(UiFile)} \ {ui.selectedFile} :
       /\ ui' = AfterRender(ui, [ui EXCEPT !.selectedFile = file])
       /\ Bounded(ui')
  /\ UNCHANGED <<sha1, call>>

HashClickClear ==
  /\ ui' = AfterRender(ui, HashHandleClear(ui))
  /\ UNCHANGED <<sha1, call>>

\* readFileAsArrayBuffer of a suspended run settles
HashFileRead ==
  /\ \E k \in 1..Len(ui.flights) :
       /\ ui.flights[k].pc = "read"
       /\ \/ ui' = FileRead(ui, k)
          \/ ui' = Settled(ui, k, Rejected("Failed to read file"))
  /\ UNCHANGED <<sha1, call>>

\* generateAllHashes of a suspended run settles, on either platform
HashSettle ==
  /\ \E k \in 1..Len(ui.flights), broken \in UiPlatforms :
       /\ ui.flights[k].pc = "digest"
       /\ ui' = Settled(ui, k, ui.digests[broken][ui.flights[k].input, ui.flights[k].hashFormat])
  /\ UNCHANGED <<sha1, call>>

InitHashUi ==
  /\ sha1 = 0
  /\ call = [c \in Callers |-> Idle]
  /\ ui = HashGeneratorMounted
NextHashUi ==
  \/ HashSetTextInput
  \/ HashSetInputMode
  \/ HashSetHashFormat
  \/ HashFileChange
  \/ HashClickClear
  \/ HashFileRead
  \/ HashSettle
SpecHashUi == InitHashUi /\ [][NextHashUi]_vars

(***************************************************************************)
(* Properties                                                              *)
(***************************************************************************)
\* The version a generating call was asked for
VersionNumber(cl) ==
  CASE cl.op = "generateV1Uuid" -> 1
    [] cl.op = "generateV4Uuid" -> 4
    [] cl.op = "generateV5Uuid" -> 5
    [] cl.op = "generateUuid" /\ cl.version = "v1" -> 1
    [] cl.op = "generateUuid" /\ cl.version = "v4" -> 4
    [] cl.op = "generateUuid" /\ cl.version = "v5" -> 5
IsGeneration(cl) ==
  cl.op \in {"generateV1Uuid", "generateV4Uuid", "generateV5Uuid", "generateUuid"}

\* 36 characters, lowercase hex digits grouped 8-4-4-4-12
DashPositions == {9, 14, 19, 24}
Canonical(u) ==
  /\ Len(u) = 36
  /\ \A i \in 1..36 : IF i \in DashPositions THEN u[i] = "-" ELSE u[i] \in Range(HexChars)
\* Canonical, hex digit 13 is the version v, hex digit 17 is 8, 9, a or b
Stamped(u, v) ==
  /\ Canonical(u)
  /\ u[15] = HexChars[v + 1]
  /\ u[20] \in {"8", "9", "a", "b"}

\* C1: every UUID returned by generateV1Uuid, generateV4Uuid, generateV5Uuid
\* and by generateUuid is 36 characters of lowercase hex grouped 8-4-4-4-12
\* with hex digit 13 the requested version and hex digit 17 one of 8, 9, a, b;
\* isValidUuid accepts it and parseUuid reports isValid with that version.
C1_GeneratedAreStamped ==
  \A c \in Callers :
    LET cl == call[c]
    IN  /\ \A u \in Generated(cl) : Stamped(u, VersionNumber(cl))
        /\ cl.op = "isValidUuid" /\ IsGeneration(cl.from) => cl.ret = TRUE
        /\ cl.op = "parseUuid" /\ IsGeneration(cl.from) =>
             cl.ret.isValid /\ cl.ret.version = VersionNumber(cl.from)
C1_Witness ==
  \E c \in Callers :
    /\ call[c].op = "parseUuid"
    /\ call[c].from.op = "generateUuid"
    /\ call[c].from.version = "v5"
    /\ call[c].ret.version = 5
    /\ call[c].uuid[20] = "b"

\* C2 as stated: for a fixed namespace and name, a second generateV5Uuid call
\* returns the string the first returned, and generateUuid('v5', namespace,
\* name) returns that string too (the digest being a function of its input).
C2_V5DeterministicAsStated ==
  \A c \in Callers :
    LET cl == call[c]
    IN  cl.op \in {"generateV5Uuid", "generateUuid"} /\ cl.from.op # "none" =>
          /\ NamespaceOf(cl) = NamespaceOf(cl.from) /\ NameOf(cl) = NameOf(cl.from)
          /\ cl.ret.kind = "resolved"
          /\ cl.ret.value = cl.from.ret.value

\* C2, amended: a second generateV5Uuid call returns the string the first
\* returned; generateUuid('v5', namespace, name) returns that string when
\* namespace and name are both non-empty, and rejects when one is empty.
C2_V5Deterministic ==
  \A c \in Callers :
    LET cl == call[c]
    IN  cl.op \in {"generateV5Uuid", "generateUuid"} /\ cl.from.op # "none" =>
          /\ NamespaceOf(cl) = NamespaceOf(cl.from) /\ NameOf(cl) = NameOf(cl.from)
          /\ IF cl.op = "generateUuid" /\ (NamespaceOf(cl) = <<>> \/ NameOf(cl) = <<>>)
             THEN cl.ret = Rejected("v5 UUIDs require both namespace and name parameters")
             ELSE cl.ret.kind = "resolved" /\ cl.ret.value = cl.from.ret.value
C2_Witness ==
  \E c \in Callers :
    /\ call[c].op = "generateUuid"
    /\ call[c].from.op = "generateV5Uuid"
    /\ call[c].from.namespace = TextNs
    /\ call[c].from.name = NameE
    /\ call[c].ret.value = call[c].from.ret.value

\* C3: generateBulkUuids(count, 'v1' | 'v4') rejects with 'Count must be
\* between 1 and 1000' exactly when count < 1 or count > 1000, and otherwise
\* resolves to exactly count UUIDs of that version (the count is not clamped).
C3_CountRange ==
  \A c \in Callers :
    LET cl == call[c]
    IN  cl.op = "generateBulkUuids" /\ cl.args.version \in {"v1", "v4"} =>
          /\ cl.pc = "await" => cl.args.count \in 1..1000 /\ Len(cl.uuids) = cl.i
                                /\ cl.i < cl.args.count /\ cl.pending.kind = "resolved"
          /\ cl.pc = "done" =>
               /\ cl.ret = Rejected("Count must be between 1 and 1000")
                    <=> (cl.args.count < 1 \/ cl.args.count > 1000)
               /\ cl.args.count \in 1..1000 =>
                    /\ cl.ret.kind = "resolved"
                    /\ Len(cl.ret.value) = cl.args.count
                    /\ \A i \in 1..Len(cl.ret.value) :
                         Stamped(cl.ret.value[i], IF cl.args.version = "v1" THEN 1 ELSE 4)
C3_Witness ==
  \E c \in Callers :
    /\ call[c].op = "generateBulkUuids" /\ call[c].pc = "done"
    /\ call[c].args.version = "v1" /\ call[c].args.count = 1000
    /\ call[c].ret.kind = "resolved" /\ Len(call[c].ret.value) = 1000

\* The form the validation contract describes: 36 characters, 8-4-4-4-12 hex
\* digits of either case separated by dashes, hex digit 13 in 1..5 and hex
\* digit 17 one of 8, 9, a, b (of either case)
AcceptedForm(u) ==
  /\ Len(u) = 36
  /\ \A i \in 1..36 : IF i \in DashPositions THEN u[i] = "-" ELSE u[i] \in AllHexChars
  /\ u[15] \in {"1", "2", "3", "4", "5"}
  /\ u[20] \in {"8", "9", "a", "b", "A", "B"}

\* C4: isValidUuid(s) is true exactly when s is 36 characters of the form
\* 8-4-4-4-12 hex digits separated by dashes (either case) with hex digit 13 in
\* 1..5 and hex digit 17 in {8, 9, a, b}; every other string is rejected.
C4_ValidExactlyAcceptedForm ==
  \A c \in Callers :
    call[c].op = "isValidUuid" => (call[c].ret <=> AcceptedForm(call[c].uuid))
C4_Witness ==
  \E c \in Callers :
    /\ call[c].op = "isValidUuid" /\ call[c].from.op = "input"
    /\ call[c].uuid = toUpperCase(WithDigits(NamespaceDNS, "5", "b"))
    /\ call[c].ret = TRUE

\* C5: for every string that isValidUuid rejects, parseUuid returns exactly
\* {version: 0, variant: 'invalid', isValid: false}, without a timestamp.
C5_InvalidParse ==
  \A c \in Callers :
    call[c].op = "parseUuid" /\ ~AcceptedForm(call[c].uuid) =>
      /\ call[c].ret = [version |-> 0, variant |-> "invalid", isValid |-> FALSE]
      /\ DOMAIN call[c].ret = {"version", "variant", "isValid"}
C5_Witness ==
  \E c \in Callers :
    /\ call[c].op = "parseUuid"
    /\ call[c].uuid = WithDigits(TestUuid, "1", "c")
    /\ ~call[c].ret.isValid

\* The variant classes of the parse contract, by the value d of hex digit 17
VariantClass(d) ==
  IF d < 8 THEN "NCS backward compatibility"         \* top bit 0
  ELSE IF d < 12 THEN "RFC 4122"                     \* top two bits 10
  ELSE IF d < 14 THEN "Microsoft backward compatibility"  \* top three bits 110
  ELSE "Reserved for future use"

\* C6: for every string that isValidUuid accepts, parseUuid returns isValid
\* true, version the value of hex digit 13 (in 1..5) and the variant class of
\* hex digit 17.
C6_ValidParse ==
  \A c \in Callers :
    call[c].op = "parseUuid" /\ AcceptedForm(call[c].uuid) =>
      /\ call[c].ret.isValid
      /\ call[c].ret.version = HexValue(call[c].uuid[15])
      /\ call[c].ret.version \in 1..5
      /\ call[c].ret.variant = VariantClass(HexValue(call[c].uuid[20]))
C6_Witness ==
  \E c \in Callers :
    /\ call[c].op = "parseUuid"
    /\ call[c].uuid = WithDigits(TestUuid, "3", "B")
    /\ call[c].ret.version = 3 /\ call[c].ret.variant = "RFC 4122"

\* The k-th hex digit (1..32) of a UUID given with or without dashes
DigitAt(u, k) ==
  IF Len(u) = 32 THEN u[k]
  ELSE u[k + (IF k > 8 THEN 1 ELSE 0) + (IF k > 12 THEN 1 ELSE 0)
           + (IF k > 16 THEN 1 ELSE 0) + (IF k > 20 THEN 1 ELSE 0)]
\* A valid UUID, given with dashes (36 characters) or without (32)
ValidAnyShape(u) ==
  \/ AcceptedForm(u)
  \/ /\ Len(u) = 32
     /\ \A i \in 1..32 : u[i] \in AllHexChars
     /\ u[13] \in {"1", "2", "3", "4", "5"}
     /\ u[17] \in {"8", "9", "a", "b", "A", "B"}
\* r shows the 32 digits of u in order, in the case of the alphabet `chars`,
\* with dashes after digits 8, 12, 16 and 20 or without any
ShowsDigits(r, u, chars, dashed) ==
  IF dashed
  THEN /\ Len(r) = 36
       /\ \A i \in DashPositions : r[i] = "-"
       /\ \A k \in 1..32 : DigitAt(r, k) = chars[HexValue(DigitAt(u, k)) + 1]
  ELSE /\ Len(r) = 32
       /\ \A k \in 1..32 : r[k] = chars[HexValue(DigitAt(u, k)) + 1]

\* C7: for every valid UUID u, with or without dashes and in either case,
\* formatUuid(u, style) returns the same 32 hex digits in the same order:
\* 'standard' dashed lowercase, 'no-dashes' 32 lowercase, 'uppercase' dashed
\* uppercase, 'uppercase-no-dashes' 32 uppercase.
C7_FormatStyles ==
  \A c \in Callers :
    LET cl == call[c]
    IN  cl.op = "formatUuid" /\ ValidAnyShape(cl.uuid) =>
          ShowsDigits(cl.ret, cl.uuid,
                      IF cl.format \in {"standard", "no-dashes"} THEN HexChars
                      ELSE UpperHexChars,
                      cl.format \in {"standard", "uppercase"})
C7_Witness ==
  \E c \in Callers :
    /\ call[c].op = "formatUuid" /\ call[c].from.op = "input"
    /\ call[c].format = "uppercase"
    /\ call[c].uuid = RemoveDashes(WithDigits(NamespaceDNS, "5", "b"))
    /\ Len(call[c].ret) = 36

\* C8: formatting is lossless: for every valid UUID u and every style s,
\* formatUuid(formatUuid(u, s), 'standard') equals formatUuid(u, 'standard').
C8_FormatLossless ==
  \A c \in Callers :
    LET cl == call[c]
    IN  /\ cl.op = "formatUuid" /\ cl.format = "standard"
        /\ cl.from.op = "formatUuid" /\ ValidAnyShape(cl.from.uuid)
        => /\ cl.uuid = cl.from.ret
           /\ cl.ret = formatUuid(cl.from.uuid, "standard")
C8_Witness ==
  \E c \in Callers :
    /\ call[c].op = "formatUuid" /\ call[c].format = "standard"
    /\ call[c].from.op = "formatUuid" /\ call[c].from.format = "uppercase-no-dashes"
    /\ call[c].from.uuid = WithDigits(TestUuid, "4", "b")
    /\ call[c].ret = WithDigits(TestUuid, "4", "b")

\* Two instants in whole milliseconds that differ by less than one millisecond
\* of rounding, in either direction
WithinRounding(a, b) ==
  \/ a = b
  \/ BigAdd(a, BigFromNat(1)) = b
  \/ BigAdd(b, BigFromNat(1)) = a

\* C9: v1 timestamp round trip: for every clock instant t at which
\* generateV1Uuid runs and every choice of random bytes, parseUuid of the
\* returned UUID has a timestamp equal to t within sub-millisecond rounding.
C9_V1TimestampRoundTrip ==
  \A c \in Callers :
    LET cl == call[c]
    IN  cl.op = "parseUuid" /\ cl.from.op = "generateV1Uuid" =>
          /\ "timestamp" \in DOMAIN cl.ret
          /\ ~cl.ret.timestamp.neg
          /\ WithinRounding(cl.ret.timestamp.ms, cl.from.now)

\* Namespace or name is missing or the empty string
Incomplete(namespace, name) ==
  \/ namespace = None \/ namespace = Some(<<>>)
  \/ name = None \/ name = Some(<<>>)
RequireBoth == Rejected("v5 UUIDs require both namespace and name parameters")

\* C10: generateUuid('v5', namespace, name), and generateBulkUuids(count,
\* 'v5', namespace, name) with count in 1..1000, reject with 'v5 UUIDs require
\* both namespace and name parameters' whenever namespace or name is missing
\* or the empty string; the SHA-1 primitive is never invoked and no UUID is
\* returned (or collected on the way).
C10_V5RequiresBoth ==
  \A c \in Callers :
    LET cl == call[c]
    IN  /\ cl.op = "generateUuid" /\ cl.version = "v5"
           /\ Incomplete(cl.namespace, cl.name)
           => cl.ret = RequireBoth /\ cl.use.digest = 0
        /\ cl.op = "generateBulkUuids" /\ cl.args.version = "v5"
           /\ cl.args.count \in 1..1000
           /\ Incomplete(cl.args.namespace, cl.args.name)
           => /\ cl.use.digest = 0
              /\ IF cl.pc = "done" THEN cl.ret = RequireBoth
                 ELSE cl.pending = RequireBoth /\ cl.i = 0 /\ cl.uuids = <<>>
C10_Witness ==
  \E c \in Callers :
    /\ call[c].op = "generateBulkUuids" /\ call[c].pc = "done"
    /\ call[c].args = [count |-> 1000, version |-> "v5",
                       namespace |-> Some(NamespaceDNS), name |-> Some(<<>>)]
    /\ call[c].ret = RequireBoth /\ call[c].use = NoUse

\* C11: a name that is not supported is rejected before anything is computed.
\* generateUuid of a version other than v1, v4, v5 rejects with
\* 'Unsupported UUID version: <version>' and has used neither the random
\* source nor the clock nor the digest; generateHash of an algorithm other than
\* MD5, SHA-1, SHA-256, SHA-512 rejects with 'Unsupported hash algorithm:
\* <algorithm>' and has asked for no digest.
C11_UnsupportedRejectedFirst ==
  \A c \in Callers :
    LET cl == call[c]
    IN  /\ (cl.op = "generateUuid" /\ cl.version \notin {"v1", "v4", "v5"})
             => /\ cl.ret = Rejected("Unsupported UUID version: " \o cl.version)
                /\ cl.use = NoUse
        /\ (cl.op = "generateHash"
               /\ cl.algorithm \notin {"MD5", "SHA-1", "SHA-256", "SHA-512"})
             => /\ cl.ret = Rejected("Unsupported hash algorithm: " \o cl.algorithm)
                /\ cl.use = 0
C11_Witness ==
  \E c \in Callers :
    /\ call[c].op = "generateHash" /\ call[c].pc = "done"
    /\ call[c].algorithm = "SHA-384" /\ call[c].input = TextInput(HelloWorld)
    /\ call[c].ret.kind = "rejected"

\* C12: generateBulkUuids(count, 'v5', ns, name) with ns and name not empty
\* and count in 1..1000 resolves to count entries; for count = 1 the entry is
\* generateV5Uuid(ns, name), the name without a suffix; for count > 1 the
\* entry at every index i >= 1 is generateV5Uuid(ns, name + '_' + i).
C12_BulkV5Suffix ==
  \A c \in Callers :
    LET cl == call[c]
    IN  (/\ cl.op = "generateBulkUuids" /\ cl.pc = "done"
         /\ cl.args.version = "v5" /\ cl.args.count \in 1..MaxCount
         /\ cl.args.namespace.some /\ cl.args.name.some
         /\ cl.args.namespace.v # <<>> /\ cl.args.name.v # <<>>)
        => /\ cl.ret.kind = "resolved"
           /\ Len(cl.ret.value) = cl.args.count
           /\ cl.args.count = 1
                => cl.ret.value[1]
                     = generateV5Uuid(sha1, cl.args.namespace.v, cl.args.name.v)
           /\ cl.args.count > 1
                => \A i \in 1..(cl.args.count - 1) :
                     cl.ret.value[i + 1]
                       = generateV5Uuid(sha1, cl.args.namespace.v,
                                        cl.args.name.v \o <<"_">> \o ToDecimal(i))
\* A bulk call of eleven entries returned, so that indices 1 and 10 got their
\* suffixes
C12_Witness ==
  \E c \in Callers :
    /\ call[c].op = "generateBulkUuids" /\ call[c].pc = "done"
    /\ call[c].args.version = "v5" /\ call[c].args.count = LongBulk
    /\ call[c].ret.kind = "resolved" /\ Len(call[c].ret.value) = LongBulk
    /\ call[c].ret.value[2] # call[c].ret.value[LongBulk]

\* C13: for each of MD5, SHA-1, SHA-256, SHA-512, every input and every format,
\* generateHash (its digest primitive working) resolves to a string of exactly
\* 32, 40, 64, 128 hex characters, with no upper-case letter when the format is
\* 'lowercase' or omitted and no lower-case letter when it is 'uppercase';
\* validateHashFormat accepts the string for the same algorithm and rejects it
\* for each of the three others.
DigestLength(algorithm) ==
  CASE algorithm = "MD5" -> 32
    [] algorithm = "SHA-1" -> 40
    [] algorithm = "SHA-256" -> 64
    [] algorithm = "SHA-512" -> 128
C13_HashShape ==
  \A c \in Callers :
    LET cl == call[c]
    IN  (/\ cl.op = "generateHash" /\ cl.pc = "done" /\ cl.broken = {}
         /\ cl.algorithm \in {"MD5", "SHA-1", "SHA-256", "SHA-512"})
        => /\ cl.ret.kind = "resolved"
           /\ Len(cl.ret.value) = DigestLength(cl.algorithm)
           /\ \A i \in 1..Len(cl.ret.value) :
                cl.ret.value[i] \in (IF cl.format = Some("uppercase")
                                     THEN Range(UpperHexChars) ELSE Range(HexChars))
           /\ \A a \in {"MD5", "SHA-1", "SHA-256", "SHA-512"} :
                validateHashFormat(cl.ret.value, a) <=> a = cl.algorithm
\* An upper-case SHA-512 digest of 'Hello, World!' with a letter in it
C13_Witness ==
  \E c \in Callers :
    /\ call[c].op = "generateHash" /\ call[c].pc = "done"
    /\ call[c].algorithm = "SHA-512" /\ call[c].format = Some("uppercase")
    /\ call[c].input = TextInput(HelloWorld)
    /\ call[c].ret.kind = "resolved" /\ Len(call[c].ret.value) = 128
    /\ \E i \in 1..128 : call[c].ret.value[i] \in {"A", "B", "C", "D", "E", "F"}

\* C14: validateHashFormat(hash, algorithm) returns true exactly when the
\* length of hash is 32 (MD5), 40 (SHA-1), 64 (SHA-256) or 128 (SHA-512) and
\* every character is a hex digit in either case; for every other string, the
\* empty string and hex strings of other lengths among them, it returns false
\* and does not throw.
IsHexDigit(ch) == ch \in Range(HexChars) \cup Range(UpperHexChars)
C14_ValidateExactly ==
  \A c \in Callers :
    LET cl == call[c]
    IN  (cl.op = "validateHashFormat" /\ cl.pc = "done")
        => /\ cl.ret \in BOOLEAN
           /\ cl.ret = TRUE
                <=> /\ cl.algorithm \in {"MD5", "SHA-1", "SHA-256", "SHA-512"}
                    /\ Len(cl.hash) = DigestLength(cl.algorithm)
                    /\ \A i \in 1..Len(cl.hash) : IsHexDigit(cl.hash[i])
\* A string of 128 hex digits in both cases was accepted for SHA-512
C14_Witness ==
  \E c \in Callers :
    /\ call[c].op = "validateHashFormat" /\ call[c].pc = "done"
    /\ call[c].from.op = "input" /\ call[c].algorithm = "SHA-512"
    /\ call[c].hash = HexRun(128, MixedHexChars)
    /\ call[c].ret = TRUE

\* C15: compareHashes(a, b) is true exactly when a and b are equal once both
\* are in lower case; so it is reflexive and symmetric, it is true of the
\* upper-case and the lower-case form of a digest, and the 'lowercase' and the
\* 'uppercase' result of generateHash for one algorithm and input compare
\* equal.
SameFolded(a, b) ==
  /\ Len(a) = Len(b)
  /\ \A i \in 1..Len(a) :
       \/ a[i] = b[i]
       \/ \E k \in 1..16 : {a[i], b[i]} = {HexChars[k], UpperHexChars[k]}
C15_CompareCaseBlind ==
  \A c \in Callers :
    LET cl == call[c]
    IN  (cl.op = "compareHashes" /\ cl.pc = "done")
        => /\ cl.ret = SameFolded(cl.hash1, cl.hash2)
           /\ cl.hash1 = cl.hash2 => cl.ret = TRUE
           /\ cl.ret = compareHashes(cl.hash2, cl.hash1)
           /\ cl.from.op = "generateHash" => cl.ret = TRUE
\* The lower-case and the upper-case digest of one input, which differ as
\* strings, compared equal
C15_Witness ==
  \E c \in Callers :
    /\ call[c].op = "compareHashes" /\ call[c].pc = "done"
    /\ call[c].from.op = "generateHash" /\ call[c].from.from.op = "generateHash"
    /\ call[c].from.from.format = Some("lowercase")
    /\ call[c].from.format = Some("uppercase")
    /\ call[c].hash1 = call[c].from.from.ret.value
    /\ call[c].hash2 = call[c].from.ret.value
    /\ call[c].hash1 # call[c].hash2
    /\ call[c].ret = TRUE

\* C16: generateAllHashes(input, format) resolves to a map whose keys are
\* exactly MD5, SHA-1, SHA-256, SHA-512, each value being what
\* generateHash(algorithm, input, format) resolves to; when the digest of any
\* one algorithm fails the call rejects, with that failure, and returns no map.
C16_AllHashes ==
  \A c \in Callers :
    LET cl == call[c]
    IN  (cl.op = "generateAllHashes" /\ cl.pc = "done")
        => IF cl.broken = {}
           THEN /\ cl.ret.kind = "resolved"
                /\ DOMAIN cl.ret.value = {"MD5", "SHA-1", "SHA-256", "SHA-512"}
                /\ \A a \in DOMAIN cl.ret.value :
                     Resolved(cl.ret.value[a]) = generateHash({}, a, cl.input, cl.format).ret
           ELSE /\ cl.ret.kind = "rejected"
                /\ \E a \in cl.broken : cl.ret = PrimitiveFailure(a)
\* The four upper-case digests of 'Hello, World!' in one map
C16_Witness ==
  \E c \in Callers :
    /\ call[c].op = "generateAllHashes" /\ call[c].pc = "done"
    /\ call[c].input = TextInput(HelloWorld) /\ call[c].format = Some("uppercase")
    /\ call[c].ret.kind = "resolved"
    /\ Len(call[c].ret.value["MD5"]) = 32 /\ Len(call[c].ret.value["SHA-512"]) = 128

\* C17: the known digests.  generateHash of the empty string resolves to
\* d41d8cd98f00b204e9800998ecf8427e for MD5, to
\* da39a3ee5e6b4b0d3255bfef95601890afd80709 for SHA-1 and to
\* e3b0c44298fc1c149afbf4c8996fb92427ae41e4649b934ca495991b7852b855 for SHA-256;
\* generateHash('SHA-256', 'Hello, World!') resolves to
\* dffd6021bb2bd5b0af676290809ec3a53191dd81c7f70a4b28688a362182986f.
KnownDigest(algorithm, input) ==
  CASE algorithm = "MD5" /\ input = TextInput(<<>>) ->
    <<"d","4","1","d","8","c","d","9","8","f","0","0","b","2","0","4",
      "e","9","8","0","0","9","9","8","e","c","f","8","4","2","7","e">>
    [] algorithm = "SHA-1" /\ input = TextInput(<<>>) ->
    <<"d","a","3","9","a","3","e","e","5","e","6","b","4","b","0","d",
      "3","2","5","5","b","f","e","f","9","5","6","0","1","8","9","0",
      "a","f","d","8","0","7","0","9">>
    [] algorithm = "SHA-256" /\ input = TextInput(<<>>) ->
    <<"e","3","b","0","c","4","4","2","9","8","f","c","1","c","1","4",
      "9","a","f","b","f","4","c","8","9","9","6","f","b","9","2","4",
      "2","7","a","e","4","1","e","4","6","4","9","b","9","3","4","c",
      "a","4","9","5","9","9","1","b","7","8","5","2","b","8","5","5">>
    [] algorithm = "SHA-256" /\ input = TextInput(HelloWorld) ->
    <<"d","f","f","d","6","0","2","1","b","b","2","b","d","5","b","0",
      "a","f","6","7","6","2","9","0","8","0","9","e","c","3","a","5",
      "3","1","9","1","d","d","8","1","c","7","f","7","0","a","4","b",
      "2","8","6","8","8","a","3","6","2","1","8","2","9","8","6","f">>
    [] OTHER -> <<>>
C17_KnownVectors ==
  \A c \in Callers :
    LET cl == call[c]
    IN  (/\ cl.op = "generateHash" /\ cl.pc = "done" /\ cl.broken = {}
         /\ cl.format # Some("uppercase")
         /\ KnownDigest(cl.algorithm, cl.input) # <<>>)
        => cl.ret = Resolved(KnownDigest(cl.algorithm, cl.input))
\* The SHA-256 digest of 'Hello, World!' was generated with the format omitted
C17_Witness ==
  \E c \in Callers :
    /\ call[c].op = "generateHash" /\ call[c].pc = "done" /\ call[c].broken = {}
    /\ call[c].algorithm = "SHA-256" /\ call[c].input = TextInput(HelloWorld)
    /\ call[c].format = None
    /\ call[c].ret.kind = "resolved" /\ SubSeq(call[c].ret.value, 1, 4) = <<"d","f","f","d">>

\* C18: two generateBulkUuids calls in flight at once, their awaits interleaved
\* in any order, do not interfere: at every moment each call holds, and in the
\* end resolves to, exactly the entries it would have alone, in index order
\* and of its own count.  For v5 the array alone is the digest UUIDs of its
\* own namespace and names; for v4 every entry is made of random bytes the
\* platform delivered.
SoloV5(args) ==
  [i \in 1..args.count |->
     generateV5Uuid(sha1, args.namespace.v,
                    IF args.count = 1 THEN args.name.v
                    ELSE args.name.v \o <<"_">> \o ToDecimal(i - 1))]
SoloV4Entries == {generateV4Uuid(e.rnd) : e \in PairEnvs(sha1)}
C18_NoInterference ==
  \A c \in Callers :
    LET cl == call[c]
    IN  (cl.op = "generateBulkUuids" /\ cl.args.count \in 1..MaxCount
           /\ (cl.args.version = "v4" \/ BulkIsV5(cl.args)))
        => /\ cl.pc = "await"
                => /\ Len(cl.uuids) = cl.i /\ cl.i < cl.args.count
                   /\ IF cl.args.version = "v5"
                      THEN /\ cl.uuids = SubSeq(SoloV5(cl.args), 1, cl.i)
                           /\ cl.pending = Resolved(SoloV5(cl.args)[cl.i + 1])
                      ELSE \A i \in 1..cl.i : cl.uuids[i] \in SoloV4Entries
           /\ cl.pc = "done"
                => /\ cl.ret.kind = "resolved"
                   /\ Len(cl.ret.value) = cl.args.count
                   /\ IF cl.args.version = "v5"
                      THEN cl.ret.value = SoloV5(cl.args)
                      ELSE \A i \in 1..cl.args.count : cl.ret.value[i] \in SoloV4Entries
\* Two v5 calls with different namespaces, names and counts are both suspended
\* with entries collected, the second ahead of the first
C18_Witness ==
  /\ call[1].op = "generateBulkUuids" /\ call[1].pc = "await"
  /\ call[2].op = "generateBulkUuids" /\ call[2].pc = "await"
  /\ call[1].args.version = "v5" /\ call[2].args.version = "v5"
  /\ call[1].args.count = 2 /\ call[2].args.count = 3
  /\ call[1].i = 1 /\ call[2].i = 2
  /\ call[1].uuids # SubSeq(call[2].uuids, 1, 1)

\* C19: a generateBulkUuids call never yields a partial result.  With count
\* outside 1..1000 it is rejected with the range error, whatever version,
\* namespace and name are, having called neither the random source nor the
\* clock nor the digest; a call that resolves resolves to an array of count
\* entries; and when the generation of an entry fails, the next step of the
\* call rejects it with that failure, so that the caller receives no array.
AllOrNothing ==
  \A c \in Callers :
    LET cl == call[c]
    IN  (cl.op = "generateBulkUuids" /\ cl.pc = "done")
        => /\ cl.args.count \notin 1..MaxCount
                => /\ cl.ret = Rejected("Count must be between 1 and 1000")
                   /\ cl.use = NoUse
           /\ cl.ret.kind = "resolved"
                => /\ cl.args.count \in 1..MaxCount
                   /\ Len(cl.ret.value) = cl.args.count
FailureRejects ==
  \A c \in Callers :
    (/\ call[c].op = "generateBulkUuids" /\ call[c].pc = "await"
     /\ call[c].pending.kind = "rejected"
     /\ call'[c] # call[c])
    => /\ call'[c].pc = "done"
       /\ call'[c].ret = call[c].pending
C19_BulkAllOrNothing == [](AllOrNothing) /\ [][FailureRejects]_vars
\* A call of three entries was rejected by a platform failure at its third
\* entry, two entries being generated already
C19_Witness ==
  \E c \in Callers :
    /\ call[c].op = "generateBulkUuids" /\ call[c].pc = "done"
    /\ call[c].args.count = 3 /\ call[c].args.version = "v4"
    /\ call[c].ret = PlatformFailure
    /\ call[c].use = Use(2, 0, 0)

\* C20: parseUuid does not fail on a version-1 UUID.  For every string of the
\* accepted form whose hex digit 13 is 1, whatever its time fields hold,
\* parseUuid returns a result, and the result has isValid true and version 1.
C20_V1ParseNeverFails ==
  \A c \in Callers :
    LET cl == call[c]
    IN  (cl.op = "parseUuid" /\ cl.pc = "done" /\ AcceptedForm(cl.uuid) /\ cl.uuid[15] = "1")
        => /\ {"isValid", "version"} \subseteq DOMAIN cl.ret
           /\ cl.ret.isValid = TRUE
           /\ cl.ret.version = 1
\* The version-1 UUID whose time fields are all zero was parsed
C20_Witness ==
  \E c \in Callers :
    /\ call[c].op = "parseUuid" /\ call[c].pc = "done"
    /\ call[c].uuid \in TimeFieldUuids
    /\ SubSeq(call[c].uuid, 1, 18) = [i \in 1..18 |-> IF i \in {9, 14} THEN "-"
                                                       ELSE IF i = 15 THEN "1" ELSE "0"]
    /\ call[c].ret.isValid = TRUE /\ call[c].ret.version = 1

\* C21: generateV5Uuid(namespace, name) returns the dashed lower-case hex
\* rendering of the first 16 bytes of SHA-1(namespaceBytes ++ UTF-8(name)) with
\* byte 6 replaced by (byte6 & 0x0F) | 0x50 and byte 8 by (byte8 & 0x3F) | 0x80,
\* the 14 other bytes being the digest's; namespaceBytes are the 16 bytes a
\* namespace of the accepted UUID form spells, and the UTF-8 bytes of the
\* namespace text otherwise.
DigestOfV5(namespace, name) ==
  Sha1Digest(sha1, (IF AcceptedForm(namespace) THEN HexToBytes(RemoveDashes(namespace))
                    ELSE Utf8Encode(namespace)) \o Utf8Encode(name))
C21_V5FromDigest ==
  \A c \in Callers :
    LET cl == call[c]
    IN  (cl.op = "generateV5Uuid" /\ cl.pc = "done")
        => /\ cl.ret.kind = "resolved"
           /\ Len(cl.ret.value) = 36
           /\ \A i \in 1..36 : IF i \in DashPositions THEN cl.ret.value[i] = "-"
                                ELSE cl.ret.value[i] \in Range(HexChars)
           /\ LET d == DigestOfV5(cl.namespace, cl.name)
                  b == HexToBytes(RemoveDashes(cl.ret.value))
              IN  \A k \in 0..15 :
                    b[k + 1] = IF k = 6 THEN (d[7] % 16) + 80
                               ELSE IF k = 8 THEN (d[9] % 64) + 128
                               ELSE d[k + 1]
\* A v5 UUID was generated in the DNS namespace from a digest whose byte 6 is
\* f0 and byte 8 is 7f
C21_Witness ==
  \E c \in Callers :
    /\ call[c].op = "generateV5Uuid" /\ call[c].pc = "done"
    /\ call[c].namespace = NamespaceDNS /\ call[c].name # <<>>
    /\ DigestOfV5(call[c].namespace, call[c].name)[7] = 240
    /\ SubSeq(call[c].ret.value, 15, 16) = <<"5", "0">>
    /\ SubSeq(call[c].ret.value, 20, 21) = <<"b", "f">>

\* C22: v1 time-field packing.  For a clock reading of ms Unix milliseconds,
\* with ticks = ms * 10000 + 0x01B21DD213814000, generateV1Uuid returns a UUID
\* whose first group is the low 32 bits of ticks, whose second group is bits
\* 32..47 of ticks and whose third group is 0x1000 OR bits 48..59 of ticks,
\* each in zero-padded lower-case hex.
ExactTicksHex(now) ==
  LET hex == PadStart0(BigToString16(BigAdd(BigMulSmall(now, TicksPerMs), GregorianOffset)), 16)
  IN  SubSeq(hex, Len(hex) - 15, Len(hex))
C22_V1TimeFields ==
  \A c \in Callers :
    LET cl == call[c]
    IN  (cl.op = "generateV1Uuid" /\ cl.pc = "done")
        => LET t == ExactTicksHex(cl.now)
           IN  /\ SubSeq(cl.ret, 1, 8) = SubSeq(t, 9, 16)
               /\ SubSeq(cl.ret, 10, 13) = SubSeq(t, 5, 8)
               /\ SubSeq(cl.ret, 15, 18) = <<"1">> \o SubSeq(t, 2, 4)

\* C23: generateV4Uuid overwrites the version and variant bits only.  For the
\* 16 bytes r the random source delivered, byte 6 of the UUID is
\* (r6 & 0x0F) | 0x40, byte 8 is (r8 & 0x3F) | 0x80 and the 14 other bytes are
\* those of r; so a draw that differs from r in any of the 122 bits kept gives
\* another UUID.
KeptBits(r) == [k \in 1..16 |-> IF k = 7 THEN r[7] % 16 ELSE IF k = 9 THEN r[9] % 64 ELSE r[k]]
C23_V4KeepsRandomBits ==
  \A c \in Callers :
    LET cl == call[c]
    IN  (cl.op = "generateV4Uuid" /\ cl.pc = "done")
        => /\ LET b == HexToBytes(RemoveDashes(cl.ret))
              IN  /\ Len(b) = 16
                  /\ \A k \in 0..15 :
                       b[k + 1] = IF k = 6 THEN (cl.rnd[7] % 16) + 64
                                  ELSE IF k = 8 THEN (cl.rnd[9] % 64) + 128
                                  ELSE cl.rnd[k + 1]
           /\ \A r \in RandomBlocks :
                KeptBits(r) # KeptBits(cl.rnd) => generateV4Uuid(r) # cl.ret
\* A UUID made of random bytes whose bytes 6 and 8 are ff and 7f, while another
\* draw differs from it in kept bits
C23_Witness ==
  \E c \in Callers :
    /\ call[c].op = "generateV4Uuid" /\ call[c].pc = "done"
    /\ call[c].rnd[7] = 255 /\ call[c].rnd[9] = 127
    /\ SubSeq(call[c].ret, 15, 16) = <<"4", "f">>
    /\ SubSeq(call[c].ret, 20, 21) = <<"b", "f">>
    /\ \E r \in RandomBlocks : KeptBits(r) # KeptBits(call[c].rnd)

\* C26: over all input strings parseUuid returns two variant values only:
\* 'invalid' exactly when isValid is false and 'RFC 4122' exactly when isValid
\* is true.  'NCS backward compatibility', 'Microsoft backward compatibility'
\* and 'Reserved for future use' are never returned, a string whose hex digit
\* 17 is not 8, 9, a or b being invalid already.
C26_TwoVariantsOnly ==
  \A c \in Callers :
    LET cl == call[c]
    IN  (cl.op = "parseUuid" /\ cl.pc = "done")
        => /\ cl.ret.variant \in {"invalid", "RFC 4122"}
           /\ cl.ret.variant = "invalid" <=> cl.ret.isValid = FALSE
           /\ cl.ret.variant = "RFC 4122" <=> cl.ret.isValid = TRUE
\* A well-formed string with variant digit c was parsed, and came out invalid
C26_Witness ==
  \E c \in Callers :
    /\ call[c].op = "parseUuid" /\ call[c].pc = "done"
    /\ call[c].uuid = WithDigits(TestUuid, "4", "c")
    /\ call[c].ret.variant = "invalid" /\ call[c].ret.isValid = FALSE

\* C27: parseUuid attaches a timestamp exactly when the input is a valid UUID
\* of version 1.  Every valid v1 UUID gets one, and it is
\* (timeHi * 2^32 + timeMid * 2^16 + timeLow - 0x01B21DD213814000) / 10000
\* milliseconds (as the Date holds it: whole milliseconds of the quotient in
\* double arithmetic), timeLow, timeMid, timeHi being the first three groups
\* and timeHi masked with 0x0FFF; no result for another version or for an
\* invalid input has one.
FieldSum(u) ==
  BigAdd(BigAdd(BigShiftHex(BigParseInt16(SubSeq(u, 16, 18)), 8),
                BigShiftHex(BigParseInt16(SubSeq(u, 10, 13)), 4)),
         BigParseInt16(SubSeq(u, 1, 8)))
BigDistance(a, b) == IF BigLess(a, b) THEN BigSub(b, a) ELSE BigSub(a, b)
C27_TimestampExactlyForV1 ==
  \A c \in Callers :
    LET cl == call[c]
    IN  (cl.op = "parseUuid" /\ cl.pc = "done")
        => /\ "timestamp" \in DOMAIN cl.ret
                <=> (AcceptedForm(cl.uuid) /\ cl.uuid[15] = "1")
           /\ "timestamp" \in DOMAIN cl.ret
                => /\ cl.ret.isValid /\ cl.ret.version = 1
                   /\ BigLess(FieldSum(cl.uuid), GregorianOffset)
                   /\ cl.ret.timestamp.neg
                   /\ BigLess(BigDistance(BigMulSmall(cl.ret.timestamp.ms, TicksPerMs),
                                          BigSub(GregorianOffset, FieldSum(cl.uuid))),
                              BigFromNat(TicksPerMs + 16))
\* The v1 UUID with all time fields ones, in upper case, got its timestamp
C27_Witness ==
  \E c \in Callers :
    /\ call[c].op = "parseUuid" /\ call[c].pc = "done"
    /\ call[c].uuid \in TimeFieldUuids /\ call[c].uuid[1] = "F"
    /\ "timestamp" \in DOMAIN call[c].ret
    /\ call[c].ret.timestamp.neg

\* C28: in generateBulkUuids for 'v5' with count > 1 every entry comes from a
\* suffixed name, index 0 included: entry i is generateV5Uuid(ns, name + '_' +
\* i) for all i in 0..count-1, so the first entry comes from 'name_0'; the
\* name without a suffix is used only when count is 1.
SuffixedName(name, i) == name \o <<"_">> \o ToDecimal(i)
C28_BulkV5IndexZero ==
  \A c \in Callers :
    LET cl == call[c]
    IN  (/\ cl.op = "generateBulkUuids" /\ cl.pc = "done" /\ BulkIsV5(cl.args)
         /\ cl.args.count \in 1..MaxCount)
        => /\ cl.ret.kind = "resolved"
           /\ cl.ret.value =
                [k \in 1..cl.args.count |->
                   generateV5Uuid(sha1, cl.args.namespace.v,
                                  IF cl.args.count = 1 THEN cl.args.name.v
                                  ELSE SuffixedName(cl.args.name.v, k - 1))]
           /\ SuffixedName(cl.args.name.v, 0) # cl.args.name.v
\* The first entry of a batch of three is the UUID of 'name_0', which is not
\* the UUID of the bare name
C28_Witness ==
  \E c \in Callers :
    /\ call[c].op = "generateBulkUuids" /\ call[c].pc = "done"
    /\ BulkIsV5(call[c].args) /\ call[c].args.count = 3
    /\ call[c].ret.kind = "resolved"
    /\ call[c].ret.value[1] = generateV5Uuid(sha1, call[c].args.namespace.v,
                                              SuffixedName(call[c].args.name.v, 0))
    /\ call[c].ret.value[1] # generateV5Uuid(sha1, call[c].args.namespace.v,
                                              call[c].args.name.v)

\* C29: for every valid UUID u, isValidUuid(formatUuid(u, s)) is true exactly
\* for the dashed styles 'standard' and 'uppercase' and false for 'no-dashes'
\* and 'uppercase-no-dashes'; parseUuid of a UUID formatted without dashes is
\* {version 0, variant 'invalid', isValid false}; yet formatUuid takes the
\* dashless string as input and formats it as it formats u.
FormattedValid(cl) ==
  /\ cl.pc = "done" /\ cl.from.op = "formatUuid" /\ cl.from.from.op = "input"
  /\ AcceptedForm(cl.from.uuid)
C29_DashlessIsInvalid ==
  \A c \in Callers :
    LET cl == call[c]
    IN  /\ (cl.op = "isValidUuid" /\ FormattedValid(cl))
             => cl.ret = (cl.from.format \in {"standard", "uppercase"})
        /\ (cl.op = "parseUuid" /\ FormattedValid(cl)
               /\ cl.from.format \in {"no-dashes", "uppercase-no-dashes"})
             => cl.ret = [version |-> 0, variant |-> "invalid", isValid |-> FALSE]
        /\ (cl.op = "formatUuid" /\ FormattedValid(cl)
               /\ cl.from.format \in {"no-dashes", "uppercase-no-dashes"})
             => /\ Len(cl.from.ret) = 32
                /\ cl.ret = formatUuid(cl.from.uuid, cl.format)
\* A valid UUID formatted 'uppercase-no-dashes' was parsed
C29_Witness ==
  \E c \in Callers :
    /\ call[c].op = "parseUuid" /\ FormattedValid(call[c])
    /\ call[c].from.format = "uppercase-no-dashes"
    /\ call[c].from.uuid[15] = "4"
    /\ call[c].ret.isValid = FALSE
\* C25: after a click on Clear and until the next click on Generate, the list
\* of generated UUIDs is empty, 'No UUIDs Generated' is shown and no
\* 'Generated n UUID' message is shown, also when a generation was in flight
\* at the click
C25_ClearedStaysEmpty ==
  (ui.component = "UuidGenerator" /\ ui.cleared)
    => /\ ui.generatedUuids = <<>>
       /\ ShowsNoUuidsGenerated(ui)
       /\ ~ShowsGeneratedCount(ui)

\* The input the component currently has: the trimmed text or the bytes of the
\* selected file, or none
CurrentInput(u) ==
  IF u.inputMode = "text"
  THEN (IF trim(u.textInput) = <<>> THEN None ELSE Some(TextInput(trim(u.textInput))))
  ELSE (IF u.selectedFile.some THEN Some(BufferInput(u.selectedFile.v.bytes)) ELSE None)

\* C24: in text mode, while the trimmed text is empty the component shows no
\* error, no 'Hashes generated successfully' and no hash, whatever runs that
\* earlier inputs started are completing
C24_EmptyTextShowsNothing ==
  (ui.component = "HashGenerator" /\ ui.inputMode = "text" /\ trim(ui.textInput) = <<>>)
    => /\ ~ShowsError(ui)
       /\ ~ShowsSuccess(ui)
       /\ ~hasAnyHash(ui)

\* C30: while no run is suspended the displayed hashes are empty or the four
\* digests of the current input in the current format, and while a run is
\* suspended the generating indicator is shown
C30_HashesOfCurrentInput ==
  ui.component = "HashGenerator"
    => /\ ui.flights = <<>>
            => \/ ui.hashes = <<>>
               \/ /\ CurrentInput(ui).some
                  /\ ui.hashes = ui.digests[{}][CurrentInput(ui).v, ui.hashFormat].value
       /\ ui.flights # <<>> => ShowsGenerating(ui)

====
